---- MODULE Spec2Model ----
(***************************************************************************)
(* SpeakInsights v3: the post-meeting processing pipeline                  *)
(* (backend/app/core/post_processing.py) with the gateways it calls.       *)
(*                                                                         *)
(* Time offsets are floats in the source.  Here a time is an integer       *)
(* number of ticks, TicksPerSecond ticks to the second, so that the        *)
(* floor taken by int(start // 60) and int(start % 60) is visible.         *)
(* A text is the sequence of its whitespace-separated words: text.split()  *)
(* is the sequence itself and the text is the words joined by one space.   *)
(***************************************************************************)
EXTENDS Integers, Sequences, FiniteSets, TLC

(* ------------------------------ bounds -------------------------------- *)

TicksPerSecond == 2
MaxTracks == 2
MaxSegs == 3
MaxChunkSegs == 2
MaxChunkSize == 3
MaxMinutes == 13
MaxSentimentRows == 2
MaxJsonItems == 2
MaxRuns == 3
MaxLines == 3
MaxReruns == 1

(* ------------------------- program constants -------------------------- *)

\* chunk_transcript(segments, chunk_size=500, overlap=50)
DefaultChunkSize == 500

DefaultOverlap == 50

(* --------------------------- small helpers ---------------------------- *)

\* Speaker names in Python's str order; sorted() of a set of names follows it.
Names == <<"A", "B", "C">>

NameSet == {Names[k] : k \in 1..Len(Names)}

NameRank(n) == CHOOSE k \in 1..Len(Names) : Names[k] = n

Min(a, b) == IF a < b THEN a ELSE b

Max(a, b) == IF a > b THEN a ELSE b

Range(s) == {s[k] : k \in 1..Len(s)}

RECURSIVE JoinStr(_, _)
\* sep.join(strs)
JoinStr(strs, sep) ==
    IF strs = <<>> THEN ""
    ELSE IF Len(strs) = 1 THEN strs[1]
    ELSE strs[1] \o sep \o JoinStr(Tail(strs), sep)

RECURSIVE SortedNames(_)
\* sorted(speakers) for a set of names
SortedNames(S) ==
    IF S = {} THEN <<>>
    ELSE LET m == CHOOSE n \in S : \A o \in S : NameRank(n) <= NameRank(o)
         IN <<m>> \o SortedNames(S \ {m})

\* The names of S in the order in which they occur in the sequence order.
RECURSIVE InOrder(_, _)
InOrder(order, S) ==
    IF order = <<>> THEN <<>>
    ELSE (IF order[1] \in S THEN <<order[1]>> ELSE <<>>) \o InOrder(Tail(order), S)

\* All orderings of the name universe (iteration orders of a Python set of str).
NameOrders ==
    {o \in [1..Len(Names) -> NameSet] : \A a, b \in 1..Len(Names) : a # b => o[a] # o[b]}

(* ------------------------ sorted(..., key=start) ---------------------- *)

\* Insertion that moves x in front of the elements with the same start.
InsertByStartUnstable(sorted, x) ==
    LET k == Cardinality({j \in 1..Len(sorted) : sorted[j].start < x.start})
    IN SubSeq(sorted, 1, k) \o <<x>> \o SubSeq(sorted, k + 1, Len(sorted))

\* One insertion of Python's stable sort: x goes after every element whose
\* key is not greater than its own.
InsertByStart(sorted, x) ==
    LET k == Cardinality({j \in 1..Len(sorted) : sorted[j].start <= x.start})
    IN SubSeq(sorted, 1, k) \o <<x>> \o SubSeq(sorted, k + 1, Len(sorted))

RECURSIVE SortedByStart(_)
\* sorted(segments, key=lambda s: s.get("start", 0.0))
SortedByStart(segs) ==
    IF segs = <<>> THEN <<>>
    ELSE InsertByStart(SortedByStart(SubSeq(segs, 1, Len(segs) - 1)), segs[Len(segs)])

(* ----------------------- _step_merge_transcript ----------------------- *)

\* f"{n:02d}" without the zero padding
Pad2NoPad(n) == ToString(n)

\* f"{n:02d}"
Pad2(n) == IF n < 10 THEN "0" \o ToString(n) ELSE ToString(n)

\* int(start // 60)
Minutes(start) == (start \div TicksPerSecond) \div 60

\* int(start % 60)
Seconds(start) == (start \div TicksPerSecond) % 60

\* f"[{minutes:02d}:{seconds:02d}] {speaker}: {text}"
FormatLine(seg) ==
    "[" \o Pad2(Minutes(seg.start)) \o ":" \o Pad2(Seconds(seg.start)) \o "] "
        \o seg.speaker \o ": " \o JoinStr(seg.text, " ")

\* The list `lines` built by the loop over sorted_segs.
MergeLines(segments) ==
    LET sorted_segs == SortedByStart(segments)
    IN [k \in 1..Len(sorted_segs) |-> FormatLine(sorted_segs[k])]

\* The value returned: (merged_transcript_text, list_of_speaker_names).
step_merge_transcript(segments) ==
    IF segments = <<>> THEN <<"", <<>>>>
    ELSE <<JoinStr(MergeLines(segments), "\n"),
           SortedNames({segments[k].speaker : k \in 1..Len(segments)})>>

(* --------------------------- chunk_transcript -------------------------- *)

\* Python's seq[lo:hi], negative indices counted from the end.
PySlice(s, lo, hi) ==
    LET n == Len(s)
        a == IF lo < 0 THEN Max(lo + n, 0) ELSE Min(lo, n)
        b == IF hi < 0 THEN Max(hi + n, 0) ELSE Min(hi, n)
    IN IF a >= b THEN <<>> ELSE SubSeq(s, a + 1, b)

\* words_with_meta of one segment: (word, speaker, start) for every word.
SegWords(seg) ==
    [k \in 1..Len(seg.text) |-> [word |-> seg.text[k], speaker |-> seg.speaker, start |-> seg.start]]

RECURSIVE FlattenWords(_)
\* The flat list built from sorted_segs.
FlattenWords(sorted_segs) ==
    IF sorted_segs = <<>> THEN <<>>
    ELSE SegWords(sorted_segs[1]) \o FlattenWords(Tail(sorted_segs))

\* speakers = list({w[1] for w in chunk_words}); ", ".join(speakers) or the
\* single name.  The list has the iteration order of a set of str, which
\* the language leaves open: order is the order this evaluation produced.
SpeakerLabel(chunk_words, order) ==
    LET speakers == InOrder(order, {chunk_words[k].speaker : k \in 1..Len(chunk_words)})
    IN IF Len(speakers) > 1 THEN JoinStr(speakers, ", ") ELSE speakers[1]

\* A chunk dict whose end is taken from the first word of the window.
ChunkDictEndOfFirst(chunk_words, order) ==
    [text    |-> JoinStr([k \in 1..Len(chunk_words) |-> chunk_words[k].word], " "),
     speaker |-> SpeakerLabel(chunk_words, order),
     start   |-> chunk_words[1].start,
     end     |-> chunk_words[1].start]

\* The dict appended to chunks for the window chunk_words.
ChunkDict(chunk_words, order) ==
    [text    |-> JoinStr([k \in 1..Len(chunk_words) |-> chunk_words[k].word], " "),
     speaker |-> SpeakerLabel(chunk_words, order),
     start   |-> chunk_words[1].start,
     end     |-> chunk_words[Len(chunk_words)].start]

(* ------------------- sentiment labels and rollups ---------------------- *)

\* A compound score is an integer number of thousandths: 0.05 is 50.  An
\* average is the exact fraction <<numerator, denominator>>, denominator > 0.

\* The 0.05 of _compound_to_label and of get_sentiment, in thousandths.
Threshold == 50

\* _compound_to_label with the boundary left out of positive.
compound_to_label_exclusive(compound) ==
    IF compound > Threshold THEN "positive"
    ELSE IF compound <= -Threshold THEN "negative"
    ELSE "neutral"

\* SentimentService._compound_to_label
compound_to_label(compound) ==
    IF compound >= Threshold THEN "positive"
    ELSE IF compound <= -Threshold THEN "negative"
    ELSE "neutral"

\* a + b of two fractions
FracAdd(a, b) == <<a[1] * b[2] + b[1] * a[2], a[2] * b[2]>>

\* a >= n / 1000 for a fraction a of thousandths and an integer n
FracGE(a, n) == a[1] >= n * a[2]

\* a <= n / 1000
FracLE(a, n) == a[1] <= n * a[2]

\* "positive" if avg >= 0.05 else ("negative" if avg <= -0.05 else "neutral")
speaker_label(avg) ==
    IF FracGE(avg, Threshold) THEN "positive"
    ELSE IF FracLE(avg, -Threshold) THEN "negative"
    ELSE "neutral"

\* The same expression over overall_score.
overall_label(overall_score) ==
    IF FracGE(overall_score, Threshold) THEN "positive"
    ELSE IF FracLE(overall_score, -Threshold) THEN "negative"
    ELSE "neutral"

RECURSIVE SumScores(_)
\* The sum of the sentiment_score of the rows.
SumScores(rows) ==
    IF rows = <<>> THEN 0 ELSE rows[1].sentiment_score + SumScores(Tail(rows))

RECURSIVE RowsOf(_, _)
\* The rows of one speaker_name (one group of the GROUP BY).
RowsOf(rows, name) ==
    IF rows = <<>> THEN <<>>
    ELSE (IF rows[1].speaker_name = name THEN <<rows[1]>> ELSE <<>>) \o RowsOf(Tail(rows), name)

\* func.avg(sentiment_score) of one group.
AvgScore(rows) == <<SumScores(rows), Len(rows)>>

RECURSIVE SumFracs(_)
\* sum(overall_scores)
SumFracs(fracs) ==
    IF fracs = <<>> THEN <<0, 1>> ELSE FracAdd(fracs[1], SumFracs(Tail(fracs)))

\* The response of get_sentiment for the stored rows: one entry for each
\* speaker_name, the overall score as the mean of the speakers' averages.
get_sentiment(rows) ==
    LET groups == {rows[k].speaker_name : k \in 1..Len(rows)}
        names == SortedNames(groups)
        avgs == [k \in 1..Len(names) |-> AvgScore(RowsOf(rows, names[k]))]
        total == SumFracs(avgs)
        overall_score == IF names = <<>> THEN <<0, 1>>
                         ELSE <<total[1], total[2] * Len(names)>>
    IN [overall_score |-> overall_score,
        overall_label |-> overall_label(overall_score),
        speakers |-> [k \in 1..Len(names) |->
                        [speaker_name |-> names[k],
                         avg |-> avgs[k],
                         label |-> speaker_label(avgs[k]),
                         segment_count |-> Len(RowsOf(rows, names[k]))]]]

(* --------------------------- ollama_client.py -------------------------- *)

\* A JSON object (a Python dict) is the record of its keys; every other
\* JSON value is a record tagged by the field json.
JsonArray(items) == [json |-> "array", items |-> items]

JsonString(str) == [json |-> "string", str |-> str]

JsonNumber(n) == [json |-> "number", n |-> n]

JsonNull == [json |-> "null"]

EmptyDict == <<>>

\* isinstance(v, dict)
IsDict(v) == "json" \notin DOMAIN v

\* isinstance(v, list)
IsList(v) == IF IsDict(v) THEN FALSE ELSE v.json = "array"

\* result["response"]: a text that json.loads rejects with JSONDecodeError,
\* or a text that it decodes to value.
Undecodable(text) == [decodes |-> FALSE, text |-> text]

Decodable(value) == [decodes |-> TRUE, value |-> value]

\* How a call ends.
Return(value) == [raised |-> FALSE, value |-> value]

Raise(error) == [raised |-> TRUE, error |-> error]

\* parsed["_model"] = ...; parsed["_tokens"] = ... on a dict
WithModelAndTokens(parsed) ==
    [k \in DOMAIN parsed \cup {"_model", "_tokens"} |->
        IF k = "_model" THEN JsonString("model")
        ELSE IF k = "_tokens" THEN JsonNumber(0)
        ELSE parsed[k]]

\* summarize_transcript after generate has returned: the item assignment
\* parsed["_model"] raises TypeError on a list, str, number or None.
summarize_transcript(response) ==
    LET parsed == IF response.decodes THEN response.value
                  ELSE [executive_summary |-> JsonString(response.text),
                        key_points |-> JsonArray(<<>>),
                        decisions_made |-> JsonArray(<<>>),
                        follow_ups |-> JsonArray(<<>>)]
    IN IF IsDict(parsed) THEN Return(WithModelAndTokens(parsed))
       ELSE Raise("TypeError")

\* extract_tasks that unwraps the key tasks only when it holds an array.
extract_tasks_array_only(response) ==
    IF ~response.decodes THEN Return(<<>>)
    ELSE LET parsed == response.value
             unwrapped == IF IsDict(parsed) /\ "tasks" \in DOMAIN parsed /\ IsList(parsed.tasks)
                          THEN parsed.tasks ELSE parsed
         IN Return(IF IsList(unwrapped) THEN unwrapped.items ELSE <<unwrapped>>)

\* extract_tasks after generate has returned; the result is a Python list.
extract_tasks(response) ==
    IF ~response.decodes THEN Return(<<>>)
    ELSE LET parsed == response.value
             unwrapped == IF IsDict(parsed) /\ "tasks" \in DOMAIN parsed
                          THEN parsed.tasks ELSE parsed
         IN Return(IF IsList(unwrapped) THEN unwrapped.items ELSE <<unwrapped>>)

\* analyze_sentiment after generate has returned.
analyze_sentiment(response) ==
    IF response.decodes THEN Return(response.value)
    ELSE Return([overall_sentiment |-> JsonString("unknown"),
                 per_speaker |-> EmptyDict,
                 sentiment_arc |-> JsonArray(<<>>)])

(* -------------------------------- state -------------------------------- *)

VARIABLES
    pc,                 \* position of the run of process_meeting
    status,             \* Meeting.status (committed)
    ended_at,           \* who stamped Meeting.ended_at last
    recordings,         \* IndividualRecording rows of the meeting (committed)
    transcripts,        \* what transcribe_file returns for each track's file
    track_fault,        \* the fault met while each track was processed
    segment_rows,       \* TranscriptionSegment rows (committed)
    embedding_rows,     \* TranscriptEmbedding rows (committed)
    summary_rows,       \* Summary rows (committed), by summary_type
    task_rows,          \* Task rows (committed)
    calendar_rows,      \* CalendarExport rows (committed)
    track_idx,          \* the recording the loop of stage 1 is at
    step_segments,      \* all_segments local to _step_transcribe_and_sentiment
    all_segments,       \* all_segments of process_meeting
    merged_transcript,  \* merged_transcript of process_meeting
    speaker_names,      \* speaker_names of process_meeting
    tasks_data,         \* tasks_data of process_meeting
    log,                \* the "[Step n]" records written by process_meeting
    chunk_pc,           \* position of the call of chunk_transcript
    chunk_segments,     \* its argument segments
    chunk_size,         \* its argument chunk_size
    overlap,            \* its argument overlap
    words_with_meta,    \* its flat word list
    chunk_i,            \* its loop index i
    windows,            \* the (i, end_idx) of every iteration so far
    chunks,             \* its list chunks
    merge_pc,           \* position of a direct call of _step_merge_transcript
    merge_segments,     \* its argument segments
    merge_lines,        \* its list lines
    merge_result,       \* the tuple it returned
    status_trace,       \* the transcription_status values committed for each track
    triggered,          \* how many runs end_meeting has queued
    calls,              \* how often the run has called each external service
    txn,                \* whether the session of the run has a transaction open
    calls_in_txn,       \* how many steps called a service with a transaction open
    sentiment_pc,       \* position of the scoring and of the read of get_sentiment
    sentiment_rows,     \* TranscriptionSegment rows: speaker, score, label
    sentiment_response, \* the SentimentResponse of get_sentiment
    gateway_pc,         \* position of a call of an OllamaClient method
    gateway_method,     \* the method called
    gateway_response,   \* result["response"] of generate
    gateway_result,     \* what the method returned
    run_pc,             \* the position of every run end_meeting has queued
    stream_pc,          \* position of a call of chat_stream
    stream_lines,       \* the lines resp.aiter_lines() delivers
    stream_i,           \* how many of them the loop has taken
    stream_yielded,     \* what the generator has yielded so far
    stream_error,       \* the exception that left the generator
    frame_meetings,     \* Meeting rows of several meetings, by id
    frame_recordings,   \* IndividualRecording rows of several meetings
    frame_rows,         \* rows of the other tables of several meetings
    frame_run           \* the run of process_meeting of each meeting

pipeline_vars ==
    <<pc, status, ended_at, recordings, transcripts, track_fault, segment_rows,
      embedding_rows, summary_rows, task_rows, calendar_rows, track_idx,
      step_segments, all_segments, merged_transcript,
      speaker_names, tasks_data, log, status_trace, triggered, calls, txn,
      calls_in_txn>>

chunk_vars ==
    <<chunk_pc, chunk_segments, chunk_size, overlap, words_with_meta, chunk_i,
      windows, chunks>>

merge_vars == <<merge_pc, merge_segments, merge_lines, merge_result>>

sentiment_vars == <<sentiment_pc, sentiment_rows, sentiment_response>>

gateway_vars == <<gateway_pc, gateway_method, gateway_response, gateway_result>>

lifecycle_vars == <<run_pc>>

stream_vars == <<stream_pc, stream_lines, stream_i, stream_yielded, stream_error>>

frame_vars == <<frame_meetings, frame_recordings, frame_rows, frame_run>>

vars ==
    <<pipeline_vars, chunk_vars, merge_vars, sentiment_vars, gateway_vars, lifecycle_vars,
      stream_vars, frame_vars>>

(* -------------------------------- inputs ------------------------------- *)

\* Results of transcribe_file (already through _parse_segments: text is a
\* stripped str, start and end are numbers).  The second has a segment
\* whose text is empty.
TranscriptHello ==
    <<[start |-> 0, end |-> 10, text |-> <<"hello", "team">>]>>

TranscriptHi ==
    <<[start |-> 2 * TicksPerSecond, end |-> 6 * TicksPerSecond, text |-> <<"hi", "there">>],
      [start |-> 3 * TicksPerSecond, end |-> 4 * TicksPerSecond, text |-> <<>>],
      [start |-> 65 * TicksPerSecond + 1, end |-> 66 * TicksPerSecond, text |-> <<"bye">>]>>

\* Audio in which nothing is said: one segment whose stripped text is empty.
TranscriptSilence ==
    <<[start |-> 0, end |-> TicksPerSecond, text |-> <<>>]>>

\* A track: the recording row and what its audio transcribes to.
TrackProfiles ==
    {[speaker_name |-> "B", file_path |-> "b.ogg", transcript |-> TranscriptHello],
     [speaker_name |-> "A", file_path |-> "a.ogg", transcript |-> TranscriptHi],
     [speaker_name |-> "C", file_path |-> "c.ogg", transcript |-> TranscriptSilence],
     [speaker_name |-> "A", file_path |-> "", transcript |-> <<>>]}

TrackLists == UNION {[1..n -> TrackProfiles] : n \in 0..MaxTracks}

\* Lists returned by ollama_client.extract_tasks.
ExtractedTaskLists ==
    {<<>>,
     <<[title |-> "t1", priority |-> "urgent", due_date |-> "null"]>>,
     <<[title |-> "t2", priority |-> "high", due_date |-> "2026-01-15"],
       [title |-> "t3", priority |-> "missing", due_date |-> "next week"]>>}

\* The services outside the process that a run calls.
ExternalCalls ==
    {"transcribe_file", "generate_embedding", "summarize_transcript", "extract_tasks",
     "analyze_sentiment", "generate_ics"}

NoCalls == [c \in ExternalCalls |-> 0]

\* calls after n more calls of service
Called(service, n) == [calls EXCEPT ![service] = @ + n]

\* The transaction of an AsyncSession (autobegin, expire_on_commit=False):
\* a statement or a pending change opens one; flush sends the changes and
\* leaves it open; commit, rollback and close end it, and a commit that
\* raises has rolled it back.
AfterExecute(t) == "open"

AfterChange(t) == "open"

AfterFlush(t) == "open"

AfterCommit(t) == "none"

AfterClose(t) == "none"

\* calls_in_txn after a step that calls a service in transaction state t
CalledIn(t) == IF t = "open" THEN calls_in_txn + 1 ELSE calls_in_txn

(* ------------------------------- end_meeting --------------------------- *)

ChunkIdle ==
    /\ chunk_pc = "idle"
    /\ chunk_segments = <<>>
    /\ chunk_size = DefaultChunkSize
    /\ overlap = DefaultOverlap
    /\ words_with_meta = <<>>
    /\ chunk_i = 0
    /\ windows = <<>>
    /\ chunks = <<>>

MergeIdle ==
    /\ merge_pc = "idle"
    /\ merge_segments = <<>>
    /\ merge_lines = <<>>
    /\ merge_result = <<"", <<>>>>

SentimentIdle ==
    /\ sentiment_pc = "idle"
    /\ sentiment_rows = <<>>
    /\ sentiment_response = <<>>

GatewayIdle ==
    /\ gateway_pc = "idle"
    /\ gateway_method = "none"
    /\ gateway_response = <<>>
    /\ gateway_result = <<>>

LifecycleIdle == run_pc = <<>>

StreamIdle ==
    /\ stream_pc = "idle"
    /\ stream_lines = <<>>
    /\ stream_i = 0
    /\ stream_yielded = <<>>
    /\ stream_error = "none"

FrameIdle ==
    /\ frame_meetings = <<>>
    /\ frame_recordings = {}
    /\ frame_rows = {}
    /\ frame_run = <<>>

\* A meeting that is waiting or active, with its recorded tracks.
Init ==
    /\ pc = "idle"
    /\ status \in {"waiting", "active"}
    /\ ended_at = "null"
    /\ \E tracks \in TrackLists :
          /\ recordings = [t \in 1..Len(tracks) |->
                             [speaker_name |-> tracks[t].speaker_name,
                              file_path |-> tracks[t].file_path,
                              transcription_status |-> "pending"]]
          /\ transcripts = [t \in 1..Len(tracks) |-> tracks[t].transcript]
          /\ track_fault = [t \in 1..Len(tracks) |-> "not_run"]
          /\ status_trace = [t \in 1..Len(tracks) |-> <<"pending">>]
    /\ segment_rows = <<>>
    /\ embedding_rows = <<>>
    /\ summary_rows = <<>>
    /\ task_rows = <<>>
    /\ calendar_rows = <<>>
    /\ track_idx = 0
    /\ step_segments = <<>>
    /\ all_segments = <<>>
    /\ merged_transcript = ""
    /\ speaker_names = <<>>
    /\ tasks_data = <<>>
    /\ log = <<>>
    /\ triggered = 0
    /\ calls = NoCalls
    /\ txn = "none"
    /\ calls_in_txn = 0
    /\ ChunkIdle
    /\ MergeIdle
    /\ SentimentIdle
    /\ GatewayIdle
    /\ LifecycleIdle
    /\ StreamIdle
    /\ FrameIdle

\* POST /{meeting_id}/end while no run is under way: rejected when the
\* meeting is processing or completed; otherwise the status goes to
\* processing and a run of process_meeting, with its own locals, is queued
\* as a background task.
EndMeeting ==
    /\ pc \in {"idle", "done", "raised"}
    /\ triggered <= MaxReruns
    /\ status \notin {"processing", "completed"}
    /\ status' = "processing"
    /\ ended_at' = "end_meeting"
    /\ pc' = "entry"
    /\ triggered' = triggered + 1
    /\ track_fault' = [t \in 1..Len(recordings) |-> "not_run"]
    /\ track_idx' = 0
    /\ step_segments' = <<>>
    /\ all_segments' = <<>>
    /\ merged_transcript' = ""
    /\ speaker_names' = <<>>
    /\ tasks_data' = <<>>
    /\ chunk_pc' = "idle"
    /\ chunk_segments' = <<>>
    /\ chunk_size' = DefaultChunkSize
    /\ overlap' = DefaultOverlap
    /\ words_with_meta' = <<>>
    /\ chunk_i' = 0
    /\ windows' = <<>>
    /\ chunks' = <<>>
    /\ UNCHANGED <<recordings, transcripts, txn, calls_in_txn, calls, status_trace, segment_rows,
                   embedding_rows, summary_rows, task_rows, calendar_rows, log,
                   merge_vars, sentiment_vars, gateway_vars, lifecycle_vars, stream_vars, frame_vars>>

(* ------------------------------ process_meeting ------------------------ *)

\* The update to processing at the head of process_meeting.  It is outside
\* every try block: when it raises, the exception leaves process_meeting.
EnterProcessing ==
    /\ pc = "entry"
    /\ \E ok \in BOOLEAN :
          IF ok
          THEN /\ status' = "processing"
               /\ pc' = "transcribe"
          ELSE /\ pc' = "raised"
               /\ UNCHANGED status
    /\ UNCHANGED <<ended_at, recordings, transcripts, txn, calls_in_txn, triggered, calls, track_fault, status_trace, segment_rows,
                   embedding_rows, summary_rows, task_rows, calendar_rows, track_idx,
                   step_segments, all_segments, merged_transcript,
                   speaker_names, tasks_data, log, chunk_vars, merge_vars, sentiment_vars, gateway_vars, lifecycle_vars, stream_vars, frame_vars>>

(* ------------------- _step_transcribe_and_sentiment -------------------- *)

\* The returned segments whose stripped text is not empty.
RECURSIVE NonEmptySegs(_)
NonEmptySegs(segments) ==
    IF segments = <<>> THEN <<>>
    ELSE (IF segments[1].text = <<>> THEN <<>> ELSE <<segments[1]>>)
             \o NonEmptySegs(Tail(segments))

\* The dicts appended to all_segments for one track.
TrackDicts(speaker_name, segments) ==
    LET kept == NonEmptySegs(segments)
    IN [k \in 1..Len(kept) |->
          [speaker |-> speaker_name, text |-> kept[k].text,
           start |-> kept[k].start, end |-> kept[k].end]]

\* The TranscriptionSegment objects added to the session for one track.
TrackRows(speaker_name, segments) ==
    LET kept == NonEmptySegs(segments)
    IN [k \in 1..Len(kept) |->
          [speaker_name |-> speaker_name, text |-> kept[k].text,
           start_time |-> kept[k].start, end_time |-> kept[k].end,
           word_count |-> Len(kept[k].text), source |-> "post_processing"]]

\* Faults a track can meet inside its try block, in program order.
TrackFaults == {"none", "commit_processing", "transcribe_file", "commit_completed"}

\* The select of the meeting's recordings; an empty result returns at once.
StepTranscribeOpen ==
    /\ pc = "transcribe"
    /\ \E ok \in BOOLEAN :
          IF ~ok
          THEN \* the select raises: caught by process_meeting
               /\ log' = Append(log, <<"transcribe", "error">>)
               /\ pc' = "merge"
               /\ txn' = "none"
               /\ UNCHANGED <<track_idx, step_segments, all_segments>>
          ELSE IF recordings = <<>>
          THEN /\ all_segments' = <<>>
               /\ log' = Append(log, <<"transcribe", "ok">>)
               /\ pc' = "merge"
               /\ txn' = AfterClose(AfterExecute(txn))
               /\ UNCHANGED <<track_idx, step_segments>>
          ELSE /\ step_segments' = <<>>
               /\ track_idx' = 1
               /\ pc' = "track"
               /\ txn' = AfterExecute(txn)
               /\ UNCHANGED <<all_segments, log>>
    /\ UNCHANGED <<status, ended_at, recordings, transcripts, calls_in_txn, triggered, calls, track_fault, status_trace, segment_rows,
                   embedding_rows, summary_rows, task_rows, calendar_rows,
                   merged_transcript, speaker_names, tasks_data, chunk_vars, merge_vars, sentiment_vars, gateway_vars, lifecycle_vars, stream_vars, frame_vars>>

\* An iteration without the per-track handler: any fault leaves the stage.
StepTranscribeTrackAborts ==
    /\ pc = "track"
    /\ track_idx <= Len(recordings)
    /\ LET rec == recordings[track_idx]
           dicts == TrackDicts(rec.speaker_name, transcripts[track_idx])
           rows == TrackRows(rec.speaker_name, transcripts[track_idx])
       IN IF rec.file_path = ""
          THEN /\ track_idx' = track_idx + 1
               /\ track_fault' = [track_fault EXCEPT ![track_idx] = "no_file"]
               /\ UNCHANGED <<pc, recordings, status_trace, segment_rows, step_segments, log, calls,
                           txn, calls_in_txn>>
          ELSE \E fault \in TrackFaults :
               /\ track_fault' = [track_fault EXCEPT ![track_idx] = fault]
               /\ calls' = IF fault = "commit_processing" THEN calls
                            ELSE Called("transcribe_file", 1)
               /\ calls_in_txn' = IF fault = "commit_processing" THEN calls_in_txn
                                   ELSE CalledIn(AfterCommit(AfterChange(txn)))
               /\ txn' = "none"
               /\ status_trace' = [status_trace EXCEPT ![track_idx] =
                      @ \o (IF fault = "commit_processing" THEN <<>> ELSE <<"processing">>)
                        \o (IF fault = "none" THEN <<"completed">> ELSE <<>>)]
               /\ IF fault = "none"
                  THEN /\ recordings' = [recordings EXCEPT
                                            ![track_idx].transcription_status = "completed"]
                       /\ segment_rows' = segment_rows \o rows
                       /\ step_segments' = step_segments \o dicts
                       /\ track_idx' = track_idx + 1
                       /\ UNCHANGED <<pc, log>>
                  ELSE /\ recordings' = [recordings EXCEPT
                                            ![track_idx].transcription_status =
                                                IF fault = "commit_processing"
                                                THEN rec.transcription_status
                                                ELSE "processing"]
                       /\ log' = Append(log, <<"transcribe", "error">>)
                       /\ pc' = "merge"
                       /\ UNCHANGED <<track_idx, segment_rows, step_segments>>
    /\ UNCHANGED <<status, ended_at, transcripts, triggered, embedding_rows, summary_rows, task_rows,
                   calendar_rows, all_segments, merged_transcript, speaker_names,
                   tasks_data, chunk_vars, merge_vars, sentiment_vars, gateway_vars, lifecycle_vars, stream_vars, frame_vars>>

\* One iteration of `for rec in individual_recordings`, the except handler
\* of the track included.  status_trace takes the values of
\* transcription_status that the commits of the iteration stored.  handler_ok is the outcome of the commit in the
\* handler; when that commit raises the exception leaves the stage and
\* process_meeting keeps its own empty all_segments.
StepTranscribeTrack ==
    /\ pc = "track"
    /\ track_idx <= Len(recordings)
    /\ LET rec == recordings[track_idx]
           dicts == TrackDicts(rec.speaker_name, transcripts[track_idx])
           rows == TrackRows(rec.speaker_name, transcripts[track_idx])
       IN IF rec.file_path = ""
          THEN /\ track_idx' = track_idx + 1
               /\ track_fault' = [track_fault EXCEPT ![track_idx] = "no_file"]
               /\ UNCHANGED <<pc, recordings, status_trace, segment_rows, step_segments, log, calls,
                           txn, calls_in_txn>>
          ELSE \E fault \in TrackFaults, handler_ok \in BOOLEAN :
               /\ fault = "none" => handler_ok
               /\ track_fault' = [track_fault EXCEPT ![track_idx] =
                                     IF handler_ok THEN fault ELSE fault \o "+handler"]
               /\ calls' = IF fault = "commit_processing" THEN calls
                            ELSE Called("transcribe_file", 1)
               /\ calls_in_txn' = IF fault = "commit_processing" THEN calls_in_txn
                                   ELSE CalledIn(AfterCommit(AfterChange(txn)))
               /\ txn' = "none"
               /\ status_trace' = [status_trace EXCEPT ![track_idx] =
                      @ \o (IF fault = "commit_processing" THEN <<>> ELSE <<"processing">>)
                        \o (IF fault = "none" THEN <<"completed">>
                            ELSE IF handler_ok THEN <<"failed">> ELSE <<>>)]
               /\ IF fault = "none"
                  THEN /\ recordings' = [recordings EXCEPT
                                            ![track_idx].transcription_status = "completed"]
                       /\ segment_rows' = segment_rows \o rows
                       /\ step_segments' = step_segments \o dicts
                       /\ track_idx' = track_idx + 1
                       /\ UNCHANGED <<pc, log>>
                  ELSE /\ step_segments' = IF fault = "commit_completed"
                                           THEN step_segments \o dicts
                                           ELSE step_segments
                       /\ UNCHANGED segment_rows
                       /\ IF handler_ok
                          THEN /\ recordings' = [recordings EXCEPT
                                                    ![track_idx].transcription_status = "failed"]
                               /\ track_idx' = track_idx + 1
                               /\ UNCHANGED <<pc, log>>
                          ELSE /\ recordings' = [recordings EXCEPT
                                                    ![track_idx].transcription_status =
                                                        IF fault = "commit_processing"
                                                        THEN rec.transcription_status
                                                        ELSE "processing"]
                               /\ log' = Append(log, <<"transcribe", "error">>)
                               /\ pc' = "merge"
                               /\ UNCHANGED track_idx
    /\ UNCHANGED <<status, ended_at, transcripts, triggered, embedding_rows, summary_rows, task_rows,
                   calendar_rows, all_segments, merged_transcript,
                   speaker_names, tasks_data, chunk_vars, merge_vars, sentiment_vars, gateway_vars, lifecycle_vars, stream_vars, frame_vars>>

\* The loop is over: return all_segments to process_meeting.
StepTranscribeReturn ==
    /\ pc = "track"
    /\ track_idx > Len(recordings)
    /\ all_segments' = step_segments
    /\ log' = Append(log, <<"transcribe", "ok">>)
    /\ pc' = "merge"
    /\ txn' = AfterClose(txn)
    /\ UNCHANGED <<status, ended_at, recordings, transcripts, calls_in_txn, triggered, calls, track_fault, status_trace, segment_rows,
                   embedding_rows, summary_rows, task_rows, calendar_rows, track_idx,
                   step_segments, merged_transcript, speaker_names,
                   tasks_data, chunk_vars, merge_vars, sentiment_vars, gateway_vars, lifecycle_vars, stream_vars, frame_vars>>

(* ------------------------ stage 3: merge (step 3) ----------------------- *)

\* merged_transcript, speaker_names = self._step_merge_transcript(all_segments)
StepMerge ==
    /\ pc = "merge"
    /\ merged_transcript' = step_merge_transcript(all_segments)[1]
    /\ speaker_names' = step_merge_transcript(all_segments)[2]
    /\ log' = Append(log, <<"merge", "ok">>)
    /\ pc' = "embed"
    /\ UNCHANGED <<status, ended_at, recordings, transcripts, txn, calls_in_txn, triggered, calls, track_fault, status_trace, segment_rows,
                   embedding_rows, summary_rows, task_rows, calendar_rows, track_idx,
                   step_segments, all_segments, tasks_data, chunk_vars, merge_vars, sentiment_vars, gateway_vars, lifecycle_vars, stream_vars, frame_vars>>

(* ------------------- chunk_transcript, step by step -------------------- *)

\* From the call to the head of the while loop: the two early returns, the
\* sort and the flat word list.
ChunkEnter ==
    /\ chunk_pc = "call"
    /\ LET words == FlattenWords(SortedByStart(chunk_segments))
       IN IF chunk_segments = <<>> \/ words = <<>>
          THEN /\ chunk_pc' = "returned"
               /\ UNCHANGED words_with_meta
          ELSE /\ chunk_pc' = "loop"
               /\ words_with_meta' = words
    /\ chunk_i' = 0
    /\ windows' = <<>>
    /\ chunks' = <<>>
    /\ UNCHANGED <<chunk_segments, chunk_size, overlap, pipeline_vars, merge_vars, sentiment_vars, gateway_vars, lifecycle_vars, stream_vars, frame_vars>>

\* An iteration that advances by chunk_size + overlap.
ChunkIterateSkips ==
    /\ chunk_pc = "loop"
    /\ chunk_i < Len(words_with_meta)
    /\ Len(chunks) <= Len(words_with_meta)
    /\ LET total == Len(words_with_meta)
           end_idx == Min(chunk_i + chunk_size, total)
           chunk_words == PySlice(words_with_meta, chunk_i, end_idx)
           next_i == chunk_i + chunk_size + overlap
       IN IF chunk_words = <<>>
          THEN /\ chunk_pc' = "raised"
               /\ UNCHANGED <<chunk_i, windows, chunks>>
          ELSE /\ \E order \in NameOrders :
                     chunks' = Append(chunks, ChunkDict(chunk_words, order))
               /\ windows' = Append(windows, <<chunk_i, end_idx>>)
               /\ chunk_i' = next_i
               /\ chunk_pc' = IF next_i >= total THEN "returned" ELSE "loop"
    /\ UNCHANGED <<chunk_segments, chunk_size, overlap, words_with_meta, pipeline_vars,
                   merge_vars, sentiment_vars, gateway_vars, lifecycle_vars, stream_vars, frame_vars>>

\* One iteration of `while i < total`.  An empty slice makes chunk_words[0]
\* raise IndexError.  The loop never ends when chunk_size - overlap <= 0
\* keeps i below total; the model follows it for one iteration more than
\* there are words.
ChunkIterate ==
    /\ chunk_pc = "loop"
    /\ chunk_i < Len(words_with_meta)
    /\ Len(chunks) <= Len(words_with_meta)
    /\ LET total == Len(words_with_meta)
           end_idx == Min(chunk_i + chunk_size, total)
           chunk_words == PySlice(words_with_meta, chunk_i, end_idx)
           next_i == chunk_i + chunk_size - overlap
       IN IF chunk_words = <<>>
          THEN /\ chunk_pc' = "raised"
               /\ UNCHANGED <<chunk_i, windows, chunks>>
          ELSE /\ \E order \in NameOrders :
                     chunks' = Append(chunks, ChunkDict(chunk_words, order))
               /\ windows' = Append(windows, <<chunk_i, end_idx>>)
               /\ chunk_i' = next_i
               /\ chunk_pc' = IF next_i >= total THEN "returned" ELSE "loop"
    /\ UNCHANGED <<chunk_segments, chunk_size, overlap, words_with_meta, pipeline_vars,
                   merge_vars, sentiment_vars, gateway_vars, lifecycle_vars, stream_vars, frame_vars>>

(* ------------------ stage 4-5: chunk and embed (step 4-5) --------------- *)

\* _step_chunk_and_embed up to the call of chunk_transcript.
StepChunkAndEmbed ==
    /\ pc = "embed"
    /\ IF all_segments = <<>>
       THEN /\ log' = Append(log, <<"embed", "ok">>)
            /\ pc' = "summarise"
            /\ UNCHANGED chunk_vars
       ELSE /\ chunk_pc' = "call"
            /\ chunk_segments' = all_segments
            /\ chunk_size' = DefaultChunkSize
            /\ overlap' = DefaultOverlap
            /\ pc' = "chunking"
            /\ UNCHANGED <<words_with_meta, chunk_i, windows, chunks, log>>
    /\ UNCHANGED <<status, ended_at, recordings, transcripts, txn, calls_in_txn, triggered, calls, track_fault, status_trace, segment_rows,
                   embedding_rows, summary_rows, task_rows, calendar_rows, track_idx,
                   step_segments, all_segments, merged_transcript,
                   speaker_names, tasks_data, merge_vars, sentiment_vars, gateway_vars, lifecycle_vars, stream_vars, frame_vars>>

\* The rows stored for the chunks, chunk_index from 0.
EmbeddingRows(cs) ==
    [k \in 1..Len(cs) |->
       [chunk_text |-> cs[k].text, chunk_index |-> k - 1, speaker_name |-> cs[k].speaker,
        start_time |-> cs[k].start, end_time |-> cs[k].end]]

\* generate_embeddings_batch calls generate_embedding once per chunk text
\* and re-raises the first failure (of call number failed_at); then one
\* commit of all rows.  A raise of either leaves no row.
StepEmbedAndStore ==
    /\ pc = "chunking"
    /\ chunk_pc = "returned"
    /\ \E fault \in {"none", "generate_embedding", "commit"}, failed_at \in 0..Len(chunks) :
          /\ (fault = "generate_embedding") <=> (failed_at > 0)
          /\ calls_in_txn' = IF chunks # <<>> THEN CalledIn(txn) ELSE calls_in_txn
          /\ calls' = Called("generate_embedding",
                              IF fault = "generate_embedding" THEN failed_at ELSE Len(chunks))
          /\ IF fault = "none"
             THEN /\ embedding_rows' = embedding_rows \o EmbeddingRows(chunks)
                  /\ log' = Append(log, <<"embed", "ok">>)
             ELSE /\ log' = Append(log, <<"embed", "error">>)
                  /\ UNCHANGED embedding_rows
    /\ pc' = "summarise"
    /\ UNCHANGED <<status, ended_at, recordings, transcripts, txn, triggered, track_fault, status_trace, segment_rows,
                   summary_rows, task_rows, calendar_rows, track_idx, step_segments,
                   all_segments, merged_transcript, speaker_names,
                   tasks_data, chunk_vars, merge_vars, sentiment_vars, gateway_vars, lifecycle_vars, stream_vars, frame_vars>>

(* ------------------------ stage 6: summarise --------------------------- *)

\* dict.get(key, default)
Get(dict, key, default) == IF key \in DOMAIN dict THEN dict[key] ELSE default

\* "\n".join(v) returns: v is a list of strings, a string, or a dict (its
\* keys are joined); any other value raises TypeError.
Joinable(v) ==
    IF IsDict(v) THEN TRUE
    ELSE CASE v.json = "string" -> TRUE
           [] v.json = "array" ->
                 \A k \in 1..Len(v.items) :
                    IF IsDict(v.items[k]) THEN FALSE ELSE v.items[k].json = "string"
           [] OTHER -> FALSE

\* Texts the model can answer the summary prompt with.
SummaryResponses ==
    {Undecodable("All agreed."),
     Decodable([executive_summary |-> JsonString("All agreed."),
                key_points |-> JsonArray(<<JsonString("ship")>>),
                decisions_made |-> JsonArray(<<>>)]),
     Decodable([executive_summary |-> JsonString("All agreed."),
                key_points |-> JsonNull]),
     Decodable(JsonArray(<<>>))}

\* A summarise step whose exception is not caught by process_meeting.
StepSummariseAborts ==
    /\ pc = "summarise"
    /\ IF merged_transcript = ""
       THEN /\ log' = Append(log, <<"summarise", "ok">>)
            /\ pc' = "tasks"
            /\ UNCHANGED <<summary_rows, calls, calls_in_txn>>
       ELSE \E fault \in {"none", "select", "generate", "commit"},
               response \in SummaryResponses :
            LET result == IF fault = "generate" THEN Raise("HTTPError")
                          ELSE summarize_transcript(response)
                stored == /\ fault = "none"
                          /\ ~result.raised
                          /\ Joinable(Get(result.value, "key_points", JsonArray(<<>>)))
                          /\ Joinable(Get(result.value, "decisions_made", JsonArray(<<>>)))
            IN
            /\ calls' = IF fault = "select" THEN calls
                         ELSE Called("summarize_transcript", 1)
            /\ calls_in_txn' = IF fault = "select" THEN calls_in_txn
                                ELSE CalledIn(AfterClose(AfterExecute(txn)))
            /\ IF stored
               THEN /\ summary_rows' = summary_rows \o <<"executive", "key_points", "decisions">>
                    /\ log' = Append(log, <<"summarise", "ok">>)
                    /\ pc' = "tasks"
               ELSE /\ log' = Append(log, <<"summarise", "error">>)
                    /\ pc' = "raised"
                    /\ UNCHANGED summary_rows
    /\ UNCHANGED <<status, ended_at, recordings, transcripts, txn, triggered, track_fault, status_trace, segment_rows,
                   embedding_rows, task_rows, calendar_rows, track_idx, step_segments,
                   all_segments, merged_transcript, speaker_names,
                   tasks_data, chunk_vars, merge_vars, sentiment_vars, gateway_vars, lifecycle_vars, stream_vars, frame_vars>>

\* A summarise step without the return on an empty transcript.
StepSummariseUnguarded ==
    /\ pc = "summarise"
    /\ \E fault \in {"none", "select", "generate", "commit"},
               response \in SummaryResponses :
            LET result == IF fault = "generate" THEN Raise("HTTPError")
                          ELSE summarize_transcript(response)
                stored == /\ fault = "none"
                          /\ ~result.raised
                          /\ Joinable(Get(result.value, "key_points", JsonArray(<<>>)))
                          /\ Joinable(Get(result.value, "decisions_made", JsonArray(<<>>)))
            IN
            /\ calls' = IF fault = "select" THEN calls
                         ELSE Called("summarize_transcript", 1)
            /\ calls_in_txn' = IF fault = "select" THEN calls_in_txn
                                ELSE CalledIn(AfterClose(AfterExecute(txn)))
            /\ IF stored
               THEN /\ summary_rows' = summary_rows \o <<"executive", "key_points", "decisions">>
                    /\ log' = Append(log, <<"summarise", "ok">>)
               ELSE /\ log' = Append(log, <<"summarise", "error">>)
                    /\ UNCHANGED summary_rows
    /\ pc' = "tasks"
    /\ UNCHANGED <<status, ended_at, recordings, transcripts, txn, triggered, track_fault, status_trace, segment_rows,
                   embedding_rows, task_rows, calendar_rows, track_idx, step_segments,
                   all_segments, merged_transcript, speaker_names,
                   tasks_data, chunk_vars, merge_vars, sentiment_vars, gateway_vars, lifecycle_vars, stream_vars, frame_vars>>

\* _step_summarise: skipped on an empty transcript; otherwise the title
\* select, summarize_transcript and one commit of three Summary rows.
StepSummarise ==
    /\ pc = "summarise"
    /\ IF merged_transcript = ""
       THEN /\ log' = Append(log, <<"summarise", "ok">>)
            /\ UNCHANGED <<summary_rows, calls, calls_in_txn>>
       ELSE \E fault \in {"none", "select", "generate", "commit"},
               response \in SummaryResponses :
            LET result == IF fault = "generate" THEN Raise("HTTPError")
                          ELSE summarize_transcript(response)
                stored == /\ fault = "none"
                          /\ ~result.raised
                          /\ Joinable(Get(result.value, "key_points", JsonArray(<<>>)))
                          /\ Joinable(Get(result.value, "decisions_made", JsonArray(<<>>)))
            IN
            /\ calls' = IF fault = "select" THEN calls
                         ELSE Called("summarize_transcript", 1)
            /\ calls_in_txn' = IF fault = "select" THEN calls_in_txn
                                ELSE CalledIn(AfterClose(AfterExecute(txn)))
            /\ IF stored
               THEN /\ summary_rows' = summary_rows \o <<"executive", "key_points", "decisions">>
                    /\ log' = Append(log, <<"summarise", "ok">>)
               ELSE /\ log' = Append(log, <<"summarise", "error">>)
                    /\ UNCHANGED summary_rows
    /\ pc' = "tasks"
    /\ UNCHANGED <<status, ended_at, recordings, transcripts, txn, triggered, track_fault, status_trace, segment_rows,
                   embedding_rows, task_rows, calendar_rows, track_idx, step_segments,
                   all_segments, merged_transcript, speaker_names,
                   tasks_data, chunk_vars, merge_vars, sentiment_vars, gateway_vars, lifecycle_vars, stream_vars, frame_vars>>

(* ------------------------ stage 7: extract tasks ----------------------- *)

Priorities == {"low", "medium", "high", "critical"}

\* Strings date.fromisoformat accepts, among those the model draws.
IsoDates == {"2026-01-15"}

\* A Task row that takes the priority of the item as it came.
TaskRowKeepsPriority(task) ==
    [title |-> task.title,
     due_date |-> IF task.due_date # "null" /\ task.due_date \in IsoDates
                  THEN task.due_date ELSE "null",
     priority |-> task.priority,
     status |-> "pending"]

\* The Task row stored for one extracted item.
TaskRow(task) ==
    [title |-> task.title,
     due_date |-> IF task.due_date # "null" /\ task.due_date \in IsoDates
                  THEN task.due_date ELSE "null",
     priority |-> IF task.priority \in Priorities THEN task.priority ELSE "medium",
     status |-> "pending"]

\* Texts the model can answer the task prompt with: an array of task
\* objects, the same under the key tasks, a single object, an array with
\* an item that is no object, and a text that is no JSON.
TaskResponses ==
    {Decodable(JsonArray(extracted)) : extracted \in ExtractedTaskLists}
    \cup {Decodable([tasks |-> JsonArray(extracted)]) : extracted \in ExtractedTaskLists}
    \cup {Decodable([title |-> "t4", priority |-> "low", due_date |-> "next week"]),
          Decodable(JsonArray(<<JsonString("call Bob")>>)),
          Undecodable("No tasks.")}

\* _step_extract_tasks: task.get raises AttributeError on an item that is
\* no dict, before anything is committed.  tasks_data of process_meeting is
\* assigned only when the step returns.
StepExtractTasks ==
    /\ pc = "tasks"
    /\ IF merged_transcript = ""
       THEN /\ tasks_data' = <<>>
            /\ log' = Append(log, <<"tasks", "ok">>)
            /\ UNCHANGED <<task_rows, calls, calls_in_txn>>
       ELSE \E fault \in {"none", "generate", "commit"}, response \in TaskResponses :
            LET result == IF fault = "generate" THEN Raise("HTTPError")
                          ELSE extract_tasks(response)
                extracted == result.value
                stored == /\ fault = "none"
                          /\ \A k \in 1..Len(extracted) : IsDict(extracted[k])
            IN
            /\ calls' = Called("extract_tasks", 1)
            /\ calls_in_txn' = CalledIn(txn)
            /\ IF stored
               THEN /\ task_rows' = task_rows \o [k \in 1..Len(extracted) |-> TaskRow(extracted[k])]
                    /\ tasks_data' = extracted
                    /\ log' = Append(log, <<"tasks", "ok">>)
               ELSE /\ log' = Append(log, <<"tasks", "error">>)
                    /\ UNCHANGED <<task_rows, tasks_data>>
    /\ pc' = "sentiment"
    /\ UNCHANGED <<status, ended_at, recordings, transcripts, txn, triggered, track_fault, status_trace, segment_rows,
                   embedding_rows, summary_rows, calendar_rows, track_idx, step_segments,
                   all_segments, merged_transcript, speaker_names,
                   chunk_vars, merge_vars, sentiment_vars, gateway_vars, lifecycle_vars, stream_vars, frame_vars>>

(* ------------------------ stage 8: deep sentiment ---------------------- *)

\* Texts the model can answer the sentiment prompt with.
SentimentResponses ==
    {Undecodable("Mostly positive."),
     Decodable([overall_sentiment |-> JsonString("positive"),
                per_speaker |-> EmptyDict,
                sentiment_arc |-> JsonArray(<<>>)]),
     Decodable(JsonArray(<<>>))}

\* A deep-sentiment step that issues the call again when it failed.
StepDeepSentimentRetries ==
    /\ pc = "sentiment"
    /\ IF merged_transcript = ""
       THEN /\ log' = Append(log, <<"sentiment", "ok">>)
            /\ UNCHANGED <<summary_rows, calls, calls_in_txn>>
       ELSE \E fault \in {"none", "generate", "commit"}, response \in SentimentResponses :
            LET result == IF fault = "generate" THEN Raise("HTTPError")
                          ELSE analyze_sentiment(response)
                stored == /\ fault = "none"
                          /\ IsDict(result.value)
            IN
            /\ calls' = Called("analyze_sentiment", IF fault = "generate" THEN 2 ELSE 1)
            /\ calls_in_txn' = CalledIn(txn)
            /\ IF stored
               THEN /\ summary_rows' = Append(summary_rows, "sentiment")
                    /\ log' = Append(log, <<"sentiment", "ok">>)
               ELSE /\ log' = Append(log, <<"sentiment", "error">>)
                    /\ UNCHANGED summary_rows
    /\ pc' = "calendar"
    /\ UNCHANGED <<status, ended_at, recordings, transcripts, txn, triggered, track_fault, status_trace, segment_rows,
                   embedding_rows, task_rows, calendar_rows, track_idx, step_segments,
                   all_segments, merged_transcript, speaker_names,
                   tasks_data, chunk_vars, merge_vars, sentiment_vars, gateway_vars, lifecycle_vars, stream_vars, frame_vars>>

\* A deep-sentiment step that keeps one sentiment row per meeting.
StepDeepSentimentUpserts ==
    /\ pc = "sentiment"
    /\ IF merged_transcript = ""
       THEN /\ log' = Append(log, <<"sentiment", "ok">>)
            /\ UNCHANGED <<summary_rows, calls, calls_in_txn>>
       ELSE \E fault \in {"none", "generate", "commit"}, response \in SentimentResponses :
            LET result == IF fault = "generate" THEN Raise("HTTPError")
                          ELSE analyze_sentiment(response)
                stored == /\ fault = "none"
                          /\ IsDict(result.value)
            IN
            /\ calls' = Called("analyze_sentiment", 1)
            /\ calls_in_txn' = CalledIn(txn)
            /\ IF stored
               THEN /\ summary_rows' = IF "sentiment" \in Range(summary_rows)
                                       THEN summary_rows
                                       ELSE Append(summary_rows, "sentiment")
                    /\ log' = Append(log, <<"sentiment", "ok">>)
               ELSE /\ log' = Append(log, <<"sentiment", "error">>)
                    /\ UNCHANGED summary_rows
    /\ pc' = "calendar"
    /\ UNCHANGED <<status, ended_at, recordings, transcripts, txn, triggered, track_fault, status_trace, segment_rows,
                   embedding_rows, task_rows, calendar_rows, track_idx, step_segments,
                   all_segments, merged_transcript, speaker_names,
                   tasks_data, chunk_vars, merge_vars, sentiment_vars, gateway_vars, lifecycle_vars, stream_vars, frame_vars>>

\* _step_deep_sentiment: analyze_sentiment and one Summary row;
\* sentiment_data.get raises AttributeError when the answer is no dict.
StepDeepSentiment ==
    /\ pc = "sentiment"
    /\ IF merged_transcript = ""
       THEN /\ log' = Append(log, <<"sentiment", "ok">>)
            /\ UNCHANGED <<summary_rows, calls, calls_in_txn>>
       ELSE \E fault \in {"none", "generate", "commit"}, response \in SentimentResponses :
            LET result == IF fault = "generate" THEN Raise("HTTPError")
                          ELSE analyze_sentiment(response)
                stored == /\ fault = "none"
                          /\ IsDict(result.value)
            IN
            /\ calls' = Called("analyze_sentiment", 1)
            /\ calls_in_txn' = CalledIn(txn)
            /\ IF stored
               THEN /\ summary_rows' = Append(summary_rows, "sentiment")
                    /\ log' = Append(log, <<"sentiment", "ok">>)
               ELSE /\ log' = Append(log, <<"sentiment", "error">>)
                    /\ UNCHANGED summary_rows
    /\ pc' = "calendar"
    /\ UNCHANGED <<status, ended_at, recordings, transcripts, txn, triggered, track_fault, status_trace, segment_rows,
                   embedding_rows, task_rows, calendar_rows, track_idx, step_segments,
                   all_segments, merged_transcript, speaker_names,
                   tasks_data, chunk_vars, merge_vars, sentiment_vars, gateway_vars, lifecycle_vars, stream_vars, frame_vars>>

(* ------------------------ stage 9: calendar export --------------------- *)

\* A filter that lets every task through.
AllTasks(tasks) == tasks

\* [t for t in tasks_data if t.get("due_date")]
RECURSIVE TasksWithDates(_)
TasksWithDates(tasks) ==
    IF tasks = <<>> THEN <<>>
    ELSE (IF tasks[1].due_date # "null" THEN <<tasks[1]>> ELSE <<>>)
             \o TasksWithDates(Tail(tasks))

\* _step_calendar_export: nothing to do without a dated task; otherwise
\* generate_ics and one CalendarExport row.
StepCalendarExport ==
    /\ pc = "calendar"
    /\ LET tasks_with_dates == TasksWithDates(tasks_data)
       IN IF tasks_with_dates = <<>>
          THEN /\ log' = Append(log, <<"calendar", "ok">>)
               /\ UNCHANGED <<calendar_rows, calls>>
          ELSE \E fault \in {"none", "select", "generate_ics", "commit"} :
               /\ calls' = IF fault = "select" THEN calls ELSE Called("generate_ics", 1)
               /\ IF fault = "none"
                  THEN /\ calendar_rows' = Append(calendar_rows,
                             [export_type |-> "ics",
                              tasks_included |-> [k \in 1..Len(tasks_with_dates) |->
                                                    tasks_with_dates[k].title]])
                       /\ log' = Append(log, <<"calendar", "ok">>)
                  ELSE /\ log' = Append(log, <<"calendar", "error">>)
                       /\ UNCHANGED calendar_rows
    /\ pc' = "finalize"
    /\ UNCHANGED <<status, ended_at, recordings, transcripts, txn, calls_in_txn, triggered, track_fault, status_trace, segment_rows,
                   embedding_rows, summary_rows, task_rows, track_idx, step_segments,
                   all_segments, merged_transcript, speaker_names,
                   tasks_data, chunk_vars, merge_vars, sentiment_vars, gateway_vars, lifecycle_vars, stream_vars, frame_vars>>

(* --------------------- step 10 and the cleanup ------------------------- *)

\* A final update whose failure marks the meeting as failed.
StepFinalizeMarksFailed ==
    /\ pc = "finalize"
    /\ \E ok \in BOOLEAN :
          IF ok
          THEN /\ status' = "completed"
               /\ ended_at' = "process_meeting"
               /\ log' = Append(log, <<"finalize", "ok">>)
          ELSE /\ status' = "failed"
               /\ log' = Append(log, <<"finalize", "error">>)
               /\ UNCHANGED ended_at
    /\ pc' = "cleanup"
    /\ UNCHANGED <<recordings, transcripts, txn, calls_in_txn, triggered, calls, track_fault, status_trace, segment_rows, embedding_rows,
                   summary_rows, task_rows, calendar_rows, track_idx, step_segments,
                   all_segments, merged_transcript, speaker_names,
                   tasks_data, chunk_vars, merge_vars, sentiment_vars, gateway_vars, lifecycle_vars, stream_vars, frame_vars>>

\* The update to completed with ended_at; a raise is logged and swallowed.
StepFinalize ==
    /\ pc = "finalize"
    /\ \E ok \in BOOLEAN :
          IF ok
          THEN /\ status' = "completed"
               /\ ended_at' = "process_meeting"
               /\ log' = Append(log, <<"finalize", "ok">>)
          ELSE /\ log' = Append(log, <<"finalize", "error">>)
               /\ UNCHANGED <<status, ended_at>>
    /\ pc' = "cleanup"
    /\ UNCHANGED <<recordings, transcripts, txn, calls_in_txn, triggered, calls, track_fault, status_trace, segment_rows, embedding_rows,
                   summary_rows, task_rows, calendar_rows, track_idx, step_segments,
                   all_segments, merged_transcript, speaker_names,
                   tasks_data, chunk_vars, merge_vars, sentiment_vars, gateway_vars, lifecycle_vars, stream_vars, frame_vars>>

\* recording_manager.cleanup_temp_files, any exception passed over, and the
\* closing log record; process_meeting returns.
StepCleanup ==
    /\ pc = "cleanup"
    /\ \E ok \in BOOLEAN :
          log' = Append(log, <<"cleanup", IF ok THEN "ok" ELSE "ignored">>)
    /\ pc' = "done"
    /\ UNCHANGED <<status, ended_at, recordings, transcripts, txn, calls_in_txn, triggered, calls, track_fault, status_trace, segment_rows,
                   embedding_rows, summary_rows, task_rows, calendar_rows, track_idx,
                   step_segments, all_segments, merged_transcript,
                   speaker_names, tasks_data, chunk_vars, merge_vars, sentiment_vars, gateway_vars, lifecycle_vars, stream_vars, frame_vars>>

(* ---------------------------- specification ---------------------------- *)

Next ==
    \/ EndMeeting
    \/ EnterProcessing
    \/ StepTranscribeOpen
    \/ StepTranscribeTrack
    \/ StepTranscribeReturn
    \/ StepMerge
    \/ StepChunkAndEmbed
    \/ ChunkEnter
    \/ ChunkIterate
    \/ StepEmbedAndStore
    \/ StepSummarise
    \/ StepExtractTasks
    \/ StepDeepSentiment
    \/ StepCalendarExport
    \/ StepFinalize
    \/ StepCleanup

Spec == Init /\ [][Next]_vars

(* ------------- direct calls of the two static methods ------------------ *)

\* No run of the pipeline: a waiting meeting without tracks.
PipelineIdle ==
    /\ pc = "idle"
    /\ status = "waiting"
    /\ ended_at = "null"
    /\ recordings = <<>>
    /\ transcripts = <<>>
    /\ track_fault = <<>>
    /\ segment_rows = <<>>
    /\ embedding_rows = <<>>
    /\ summary_rows = <<>>
    /\ task_rows = <<>>
    /\ calendar_rows = <<>>
    /\ track_idx = 0
    /\ step_segments = <<>>
    /\ all_segments = <<>>
    /\ merged_transcript = ""
    /\ speaker_names = <<>>
    /\ tasks_data = <<>>
    /\ log = <<>>
    /\ status_trace = <<>>
    /\ triggered = 0
    /\ calls = NoCalls
    /\ txn = "none"
    /\ calls_in_txn = 0

\* Well-formed segment dicts given to _step_merge_transcript: starts with a
\* fraction of a second, past one minute and past ten minutes.
MergeSegments ==
    {[speaker |-> sp, text |-> tx, start |-> st, end |-> st + TicksPerSecond] :
        sp \in {"B", "A"},
        tx \in {<<"hi">>, <<"ok", "go">>},
        st \in {0, 2 * TicksPerSecond + 1, 75 * TicksPerSecond, 725 * TicksPerSecond + 1}}

MergeInputs == UNION {[1..n -> MergeSegments] : n \in 0..MaxSegs}

InitMerge ==
    /\ PipelineIdle
    /\ ChunkIdle
    /\ SentimentIdle
    /\ GatewayIdle
    /\ LifecycleIdle
    /\ StreamIdle
    /\ FrameIdle
    /\ merge_pc = "call"
    /\ merge_segments \in MergeInputs
    /\ merge_lines = <<>>
    /\ merge_result = <<"", <<>>>>

\* The call _step_merge_transcript(merge_segments), to its return.
MergeCall ==
    /\ merge_pc = "call"
    /\ merge_lines' = IF merge_segments = <<>> THEN <<>> ELSE MergeLines(merge_segments)
    /\ merge_result' = step_merge_transcript(merge_segments)
    /\ merge_pc' = "returned"
    /\ UNCHANGED <<merge_segments, pipeline_vars, chunk_vars, sentiment_vars, gateway_vars, lifecycle_vars, stream_vars, frame_vars>>

SpecMerge == InitMerge /\ [][MergeCall]_vars

\* Segment dicts given to chunk_transcript; a text may have no word.
ChunkSegments ==
    {[speaker |-> sp, text |-> tx, start |-> st, end |-> st + TicksPerSecond] :
        sp \in {"B", "A"},
        tx \in {<<>>, <<"x">>, <<"y", "z">>},
        st \in {0, 2 * TicksPerSecond}}

ChunkInputs == UNION {[1..n -> ChunkSegments] : n \in 0..MaxChunkSegs}

InitChunk ==
    /\ PipelineIdle
    /\ MergeIdle
    /\ SentimentIdle
    /\ GatewayIdle
    /\ LifecycleIdle
    /\ StreamIdle
    /\ FrameIdle
    /\ chunk_pc = "call"
    /\ chunk_segments \in ChunkInputs
    /\ chunk_size \in 1..MaxChunkSize
    /\ overlap \in 0..MaxChunkSize
    /\ words_with_meta = <<>>
    /\ chunk_i = 0
    /\ windows = <<>>
    /\ chunks = <<>>

SpecChunk == InitChunk /\ [][ChunkEnter \/ ChunkIterate]_vars

(* ------------- segment scoring and GET /{meeting_id}/sentiment ---------- *)

\* Compound scores VADER can return, in thousandths: the two boundaries,
\* their neighbours and the extremes.
CompoundScores == {-1000, -51, -50, -49, 0, 49, 50, 51, 1000}

\* Segments about to be scored: the speaker and the compound score that
\* polarity_scores gives for the text.
UnscoredRows ==
    UNION {[1..n -> [speaker_name : {"A", "B"}, compound : CompoundScores,
                     sentiment_score : {0}, sentiment_label : {"unscored"}]] :
           n \in 0..MaxSentimentRows}

InitSentiment ==
    /\ PipelineIdle
    /\ ChunkIdle
    /\ MergeIdle
    /\ GatewayIdle
    /\ LifecycleIdle
    /\ StreamIdle
    /\ FrameIdle
    /\ sentiment_pc = "score"
    /\ sentiment_rows \in UnscoredRows
    /\ sentiment_response = <<>>

\* analyze_segment for every segment, as stage 1 stores it: the compound
\* score and its label, or 0.0 and neutral when the analyzer raised.
AnalyzeSegments ==
    /\ sentiment_pc = "score"
    /\ \E raised \in SUBSET (1..Len(sentiment_rows)) :
          sentiment_rows' =
              [k \in 1..Len(sentiment_rows) |->
                 IF k \in raised
                 THEN [sentiment_rows[k] EXCEPT !.sentiment_score = 0,
                                                !.sentiment_label = "neutral"]
                 ELSE [sentiment_rows[k] EXCEPT
                          !.sentiment_score = sentiment_rows[k].compound,
                          !.sentiment_label = compound_to_label(sentiment_rows[k].compound)]]
    /\ sentiment_pc' = "stored"
    /\ UNCHANGED <<sentiment_response, pipeline_vars, chunk_vars, merge_vars, gateway_vars, lifecycle_vars, stream_vars, frame_vars>>

\* GET /{meeting_id}/sentiment over the stored rows.
GetSentiment ==
    /\ sentiment_pc = "stored"
    /\ sentiment_response' = get_sentiment(sentiment_rows)
    /\ sentiment_pc' = "returned"
    /\ UNCHANGED <<sentiment_rows, pipeline_vars, chunk_vars, merge_vars, gateway_vars, lifecycle_vars, stream_vars, frame_vars>>

SpecSentiment == InitSentiment /\ [][AnalyzeSegments \/ GetSentiment]_vars

(* ---------------- direct calls of the OllamaClient methods -------------- *)

\* Elements a model puts in an array: two task objects, a bare string and
\* a number.
JsonItems ==
    {[title |-> "t1", priority |-> "urgent", due_date |-> "null"],
     [title |-> "t2", priority |-> "high", due_date |-> "2026-01-15"],
     JsonString("call Bob"),
     JsonNumber(7)}

JsonArrays == {JsonArray(items) : items \in UNION {[1..n -> JsonItems] : n \in 0..MaxJsonItems}}

\* The JSON values a response text can decode to.
JsonValues ==
    JsonArrays
    \cup {[tasks |-> arr] : arr \in JsonArrays}
    \cup {[tasks |-> JsonString("none")], [tasks |-> JsonNull],
          [tasks |-> [title |-> "t1", priority |-> "urgent", due_date |-> "null"]],
          [title |-> "t1", priority |-> "urgent", due_date |-> "null"],
          [executive_summary |-> JsonString("All agreed."),
           key_points |-> JsonArray(<<JsonString("budget")>>),
           decisions_made |-> JsonArray(<<>>),
           follow_ups |-> JsonArray(<<>>)],
          [overall_sentiment |-> JsonString("mixed"),
           per_speaker |-> EmptyDict,
           sentiment_arc |-> JsonArray(<<>>)],
          [summary |-> JsonString("All agreed.")],
          EmptyDict, JsonString("ok"), JsonNumber(42), JsonNull}

\* Texts the model can answer with.
ResponseTexts ==
    {Undecodable(""), Undecodable("Sure! Here is the JSON: {"),
     Undecodable("{\"executive_summary\": \"All")}
    \cup {Decodable(v) : v \in JsonValues}

Methods == {"summarize_transcript", "extract_tasks", "analyze_sentiment"}

InitGateway ==
    /\ PipelineIdle
    /\ ChunkIdle
    /\ MergeIdle
    /\ SentimentIdle
    /\ LifecycleIdle
    /\ StreamIdle
    /\ FrameIdle
    /\ gateway_pc = "call"
    /\ gateway_method \in Methods
    /\ gateway_response \in ResponseTexts
    /\ gateway_result = <<>>

\* One call of a method: generate either raises (and the method with it)
\* or returns gateway_response, which the method then decodes.
GatewayCall ==
    /\ gateway_pc = "call"
    /\ \E generate_ok \in BOOLEAN :
          gateway_result' =
              IF ~generate_ok THEN Raise("HTTPError")
              ELSE CASE gateway_method = "summarize_transcript" ->
                            summarize_transcript(gateway_response)
                     [] gateway_method = "extract_tasks" ->
                            extract_tasks(gateway_response)
                     [] gateway_method = "analyze_sentiment" ->
                            analyze_sentiment(gateway_response)
    /\ gateway_pc' = IF gateway_result'.raised THEN "raised" ELSE "returned"
    /\ UNCHANGED <<gateway_method, gateway_response, pipeline_vars, chunk_vars, merge_vars,
                   sentiment_vars, lifecycle_vars, stream_vars, frame_vars>>

SpecGateway == InitGateway /\ [][GatewayCall]_vars

(* ------------- start_meeting, end_meeting and the runs they queue ------- *)

\* POST /{meeting_id}/start: rejected only when the meeting is active.
StartMeeting ==
    /\ status # "active"
    /\ status' = "active"
    /\ UNCHANGED <<pc, ended_at, recordings, transcripts, txn, calls_in_txn, track_fault, segment_rows,
                   embedding_rows, summary_rows, task_rows, calendar_rows, track_idx,
                   step_segments, all_segments, merged_transcript, speaker_names,
                   tasks_data, log, status_trace, triggered, calls,
                   chunk_vars, merge_vars, sentiment_vars, gateway_vars, lifecycle_vars, stream_vars, frame_vars>>

\* POST /{meeting_id}/end, whatever runs are under way: rejected when the
\* meeting is processing or completed; otherwise the status goes to
\* processing and one more run of process_meeting is queued.
EndMeetingRequest ==
    /\ Len(run_pc) < MaxRuns
    /\ status \notin {"processing", "completed"}
    /\ status' = "processing"
    /\ ended_at' = "end_meeting"
    /\ triggered' = triggered + 1
    /\ run_pc' = Append(run_pc, "queued")
    /\ UNCHANGED <<pc, recordings, transcripts, txn, calls_in_txn, track_fault, segment_rows,
                   embedding_rows, summary_rows, task_rows, calendar_rows, track_idx,
                   step_segments, all_segments, merged_transcript, speaker_names,
                   tasks_data, log, status_trace, calls,
                   chunk_vars, merge_vars, sentiment_vars, gateway_vars, stream_vars, frame_vars>>

\* The head of a queued run: the update to processing, outside every try.
RunEnter ==
    \E r \in 1..Len(run_pc), ok \in BOOLEAN :
       /\ run_pc[r] = "queued"
       /\ IF ok
          THEN /\ status' = "processing"
               /\ run_pc' = [run_pc EXCEPT ![r] = "stages"]
          ELSE /\ run_pc' = [run_pc EXCEPT ![r] = "raised"]
               /\ UNCHANGED status
       /\ UNCHANGED <<pc, ended_at, recordings, transcripts, txn, calls_in_txn, track_fault, segment_rows,
                      embedding_rows, summary_rows, task_rows, calendar_rows, track_idx,
                      step_segments, all_segments, merged_transcript, speaker_names,
                      tasks_data, log, status_trace, triggered, calls,
                      chunk_vars, merge_vars, sentiment_vars, gateway_vars, stream_vars, frame_vars>>

\* The stages of a run write no Meeting.status; its final update sets
\* completed, and a failure of that update is swallowed.
RunFinalize ==
    \E r \in 1..Len(run_pc), ok \in BOOLEAN :
       /\ run_pc[r] = "stages"
       /\ run_pc' = [run_pc EXCEPT ![r] = "ended"]
       /\ IF ok
          THEN /\ status' = "completed"
               /\ ended_at' = "process_meeting"
          ELSE UNCHANGED <<status, ended_at>>
       /\ UNCHANGED <<pc, recordings, transcripts, txn, calls_in_txn, track_fault, segment_rows,
                      embedding_rows, summary_rows, task_rows, calendar_rows, track_idx,
                      step_segments, all_segments, merged_transcript, speaker_names,
                      tasks_data, log, status_trace, triggered, calls,
                      chunk_vars, merge_vars, sentiment_vars, gateway_vars, stream_vars, frame_vars>>

\* A meeting as create_meeting stores it.
InitLifecycle ==
    /\ PipelineIdle
    /\ ChunkIdle
    /\ MergeIdle
    /\ SentimentIdle
    /\ GatewayIdle
    /\ LifecycleIdle
    /\ StreamIdle
    /\ FrameIdle

SpecLifecycle ==
    InitLifecycle /\ [][StartMeeting \/ EndMeetingRequest \/ RunEnter \/ RunFinalize]_vars

(* ------------------------------ chat_stream ---------------------------- *)

\* bool(v) of a decoded JSON value
Truthy(v) ==
    IF IsDict(v) THEN v # EmptyDict
    ELSE CASE v.json = "string" -> v.str # ""
           [] v.json = "number" -> v.n # 0
           [] v.json = "array" -> v.items # <<>>
           [] OTHER -> FALSE

\* The lines of a streamed answer: the empty line, a line that is no JSON,
\* message objects with and without content, an object without message,
\* and decodable lines that are no message object.
StreamLineKinds ==
    {Undecodable(""),
     Undecodable("not json"),
     Decodable([message |-> [content |-> JsonString("Hel")]]),
     Decodable([message |-> [content |-> JsonString("lo")]]),
     Decodable([message |-> [content |-> JsonString("")]]),
     Decodable([model |-> JsonString("m")]),
     Decodable(JsonArray(<<>>)),
     Decodable([message |-> JsonString("hi")])}

InitStream ==
    /\ PipelineIdle
    /\ ChunkIdle
    /\ MergeIdle
    /\ SentimentIdle
    /\ GatewayIdle
    /\ LifecycleIdle
    /\ FrameIdle
    /\ stream_pc = "open"
    /\ stream_lines \in UNION {[1..n -> StreamLineKinds] : n \in 0..MaxLines}
    /\ stream_i = 0
    /\ stream_yielded = <<>>
    /\ stream_error = "none"

\* client.stream(...) and resp.raise_for_status()
StreamOpen ==
    /\ stream_pc = "open"
    /\ \E ok \in BOOLEAN :
          IF ok
          THEN /\ stream_pc' = "lines"
               /\ UNCHANGED stream_error
          ELSE /\ stream_pc' = "raised"
               /\ stream_error' = "HTTPError"
    /\ UNCHANGED <<stream_lines, stream_i, stream_yielded, pipeline_vars, chunk_vars,
                   merge_vars, sentiment_vars, gateway_vars, lifecycle_vars, frame_vars>>

\* One iteration of `async for line in resp.aiter_lines()`: only
\* JSONDecodeError is caught inside the loop; data.get and
\* data.get("message", {}).get raise AttributeError on a value that is no
\* dict, and the outer handler re-raises it.
StreamLine ==
    /\ stream_pc = "lines"
    /\ stream_i < Len(stream_lines)
    /\ LET line == stream_lines[stream_i + 1]
       IN IF ~line.decodes
          THEN \* `if not line: continue` and `except json.JSONDecodeError: continue`
               UNCHANGED <<stream_pc, stream_yielded, stream_error>>
          ELSE IF ~IsDict(line.value) \/ ~IsDict(Get(line.value, "message", EmptyDict))
          THEN /\ stream_pc' = "raised"
               /\ stream_error' = "AttributeError"
               /\ UNCHANGED stream_yielded
          ELSE LET content == Get(Get(line.value, "message", EmptyDict), "content",
                                  JsonString(""))
               IN /\ stream_yielded' = IF Truthy(content)
                                        THEN Append(stream_yielded, content)
                                        ELSE stream_yielded
                  /\ UNCHANGED <<stream_pc, stream_error>>
    /\ stream_i' = stream_i + 1
    /\ UNCHANGED <<stream_lines, pipeline_vars, chunk_vars, merge_vars, sentiment_vars,
                   gateway_vars, lifecycle_vars, frame_vars>>

\* The lines are exhausted: the generator ends.
StreamEnd ==
    /\ stream_pc = "lines"
    /\ stream_i = Len(stream_lines)
    /\ stream_pc' = "ended"
    /\ UNCHANGED <<stream_lines, stream_i, stream_yielded, stream_error, pipeline_vars,
                   chunk_vars, merge_vars, sentiment_vars, gateway_vars, lifecycle_vars, frame_vars>>

SpecStream == InitStream /\ [][StreamOpen \/ StreamLine \/ StreamEnd]_vars

(* ------------- a meeting that is started and ended again --------------- *)

\* An active meeting with one recorded track, of speech or of silence.
InitRerun ==
    /\ Init
    /\ status = "active"
    /\ Len(recordings) = 1
    /\ recordings[1].speaker_name \in {"B", "C"}

\* process_meeting has returned and logged no failure of any step.
RunSucceeded ==
    /\ pc = "done"
    /\ \A k \in 1..Len(log) : log[k][2] # "error"

\* POST /{meeting_id}/start on a meeting whose run has succeeded.
StartMeetingAgain == RunSucceeded /\ StartMeeting

\* Runs of process_meeting on one meeting, one after the other: after a
\* run that succeeded start_meeting makes the meeting active again and
\* end_meeting queues the next run.
SpecRerun == InitRerun /\ [][Next \/ StartMeetingAgain]_vars

(* ------------- runs for several meetings on one database --------------- *)

MeetingIds == {"m1", "m2"}

\* A where clause that is left out.
WhereDropped(rows, meeting_id) == rows

\* select(Table).where(Table.meeting_id == uuid.UUID(meeting_id))
Where(rows, meeting_id) == {r \in rows : r.meeting_id = meeting_id}

\* update(Meeting).where(Meeting.id == uuid.UUID(meeting_id)).values(...)
UpdateMeeting(meetings, meeting_id, values) ==
    [id \in DOMAIN meetings |->
       IF id = meeting_id
       THEN [f \in DOMAIN meetings[id] |->
               IF f \in DOMAIN values THEN values[f] ELSE meetings[id][f]]
       ELSE meetings[id]]

\* select(Meeting).where(Meeting.id == uuid.UUID(meeting_id))
SelectMeeting(meetings, meeting_id) == {id \in DOMAIN meetings : id = meeting_id}

\* Table(id=uuid.uuid4(), meeting_id=uuid.UUID(meeting_id), ...): count new
\* rows of the table, each with an id no row has yet.
NewRows(table, meeting_id, count) ==
    LET have == Cardinality({r \in frame_rows : r.table = table /\ r.meeting_id = meeting_id})
    IN {[table |-> table, meeting_id |-> meeting_id, source |-> "post_processing",
         n |-> have + k] : k \in 1..count}

\* frame_run after the run of meeting_id has moved to position at
Moved(meeting_id, at) == [frame_run EXCEPT ![meeting_id].pc = at]

\* frame_run after that run has also read rows owned by the meetings in owners
MovedReading(meeting_id, at, owners) ==
    [frame_run EXCEPT ![meeting_id].pc = at, ![meeting_id].reads = @ \cup owners]

\* Two active meetings, each with a recorded track and a segment stored
\* live; the first has the rows of an earlier run as well.
InitFrame ==
    /\ PipelineIdle
    /\ ChunkIdle
    /\ MergeIdle
    /\ SentimentIdle
    /\ GatewayIdle
    /\ LifecycleIdle
    /\ StreamIdle
    /\ frame_meetings = [id \in MeetingIds |->
                           [status |-> "active", ended_at |-> "null", title |-> id]]
    /\ frame_recordings =
          {[id |-> "r1", meeting_id |-> "m1", file_path |-> "a.ogg",
            transcription_status |-> "completed"],
           [id |-> "r2", meeting_id |-> "m2", file_path |-> "b.ogg",
            transcription_status |-> "pending"]}
    /\ frame_rows =
          {[table |-> "segment", meeting_id |-> id, source |-> "live", n |-> 1] :
              id \in MeetingIds}
          \cup {[table |-> table, meeting_id |-> "m1", source |-> "post_processing", n |-> 1] :
                   table \in {"embedding", "summary", "task"}}
    /\ frame_run = [id \in MeetingIds |->
                      [pc |-> "idle", all_segments |-> {}, tasks_data |-> FALSE, reads |-> {}]]

\* POST /{meeting_id}/end for one of the meetings.
FrameEndMeeting(meeting_id) ==
    /\ frame_run[meeting_id].pc = "idle"
    /\ SelectMeeting(frame_meetings, meeting_id) # {}
    /\ frame_meetings[meeting_id].status \notin {"processing", "completed"}
    /\ frame_meetings' = UpdateMeeting(frame_meetings, meeting_id,
                                       [status |-> "processing", ended_at |-> "end_meeting"])
    /\ frame_run' = Moved(meeting_id, "entry")
    /\ UNCHANGED <<frame_recordings, frame_rows, pipeline_vars, chunk_vars, merge_vars, sentiment_vars,
                   gateway_vars, lifecycle_vars, stream_vars>>

\* The update to processing at the head of process_meeting.
FrameEnter(meeting_id) ==
    /\ frame_run[meeting_id].pc = "entry"
    /\ \E ok \in BOOLEAN :
          IF ok
          THEN /\ frame_meetings' = UpdateMeeting(frame_meetings, meeting_id,
                                                  [status |-> "processing"])
               /\ frame_run' = Moved(meeting_id, "transcribe")
          ELSE /\ frame_run' = Moved(meeting_id, "raised")
               /\ UNCHANGED frame_meetings
    /\ UNCHANGED <<frame_recordings, frame_rows, pipeline_vars, chunk_vars, merge_vars, sentiment_vars,
                   gateway_vars, lifecycle_vars, stream_vars>>

\* _step_transcribe_and_sentiment as a whole: the select of the meeting's
\* recordings, and for each of them the status and, when its
\* transcription went through, its TranscriptionSegment rows.
FrameTranscribe(meeting_id) ==
    /\ frame_run[meeting_id].pc = "transcribe"
    /\ \E select_ok \in BOOLEAN :
          IF ~select_ok
          THEN /\ frame_run' = Moved(meeting_id, "embed")
               /\ UNCHANGED <<frame_recordings, frame_rows>>
          ELSE LET individual_recordings == Where(frame_recordings, meeting_id)
               IN \E transcribed \in SUBSET individual_recordings :
                     /\ frame_recordings' =
                           (frame_recordings \ individual_recordings)
                           \cup {[rec EXCEPT !.transcription_status =
                                      IF rec \in transcribed THEN "completed" ELSE "failed"] :
                                   rec \in individual_recordings}
                     /\ frame_rows' = frame_rows
                           \cup NewRows("segment", meeting_id, Cardinality(transcribed))
                     /\ frame_run' =
                           [frame_run EXCEPT
                              ![meeting_id].pc = "embed",
                              ![meeting_id].all_segments = {rec.id : rec \in transcribed},
                              ![meeting_id].reads =
                                 @ \cup {rec.meeting_id : rec \in individual_recordings}]
    /\ UNCHANGED <<frame_meetings, pipeline_vars, chunk_vars, merge_vars, sentiment_vars,
                   gateway_vars, lifecycle_vars, stream_vars>>

\* _step_chunk_and_embed, _step_extract_tasks and _step_deep_sentiment as
\* wholes: nothing without segments; otherwise the call and, when nothing
\* raised, the rows of the stage with one commit.
FrameCallAndStore(meeting_id) ==
    /\ frame_run[meeting_id].pc \in {"embed", "tasks", "sentiment"}
    /\ LET at == frame_run[meeting_id].pc
           table == CASE at = "embed" -> "embedding"
                      [] at = "tasks" -> "task"
                      [] at = "sentiment" -> "summary"
           next_at == CASE at = "embed" -> "summarise"
                        [] at = "tasks" -> "sentiment"
                        [] at = "sentiment" -> "calendar"
       IN IF frame_run[meeting_id].all_segments = {}
          THEN /\ frame_run' = Moved(meeting_id, next_at)
               /\ UNCHANGED frame_rows
          ELSE \E ok \in BOOLEAN, dated \in BOOLEAN :
                  /\ at # "tasks" => ~dated
                  /\ dated => ok
                  /\ frame_rows' = IF ok THEN frame_rows \cup NewRows(table, meeting_id, 1)
                                   ELSE frame_rows
                  /\ frame_run' = [frame_run EXCEPT ![meeting_id].pc = next_at,
                                                    ![meeting_id].tasks_data = @ \/ dated]
    /\ UNCHANGED <<frame_meetings, frame_recordings, pipeline_vars, chunk_vars, merge_vars, sentiment_vars,
                   gateway_vars, lifecycle_vars, stream_vars>>

\* _step_summarise as a whole: the select of the meeting's title, the call
\* and three Summary rows.
FrameSummarise(meeting_id) ==
    /\ frame_run[meeting_id].pc = "summarise"
    /\ IF frame_run[meeting_id].all_segments = {}
       THEN /\ frame_run' = Moved(meeting_id, "tasks")
            /\ UNCHANGED frame_rows
       ELSE \E ok \in BOOLEAN :
               /\ frame_rows' = IF ok THEN frame_rows \cup NewRows("summary", meeting_id, 3)
                                ELSE frame_rows
               /\ frame_run' = MovedReading(meeting_id, "tasks",
                                            SelectMeeting(frame_meetings, meeting_id))
    /\ UNCHANGED <<frame_meetings, frame_recordings, pipeline_vars, chunk_vars, merge_vars, sentiment_vars,
                   gateway_vars, lifecycle_vars, stream_vars>>

\* _step_calendar_export as a whole: nothing without a dated task;
\* otherwise the selects of the meeting and of its participants and one
\* CalendarExport row.
FrameCalendar(meeting_id) ==
    /\ frame_run[meeting_id].pc = "calendar"
    /\ IF ~frame_run[meeting_id].tasks_data
       THEN /\ frame_run' = Moved(meeting_id, "finalize")
            /\ UNCHANGED frame_rows
       ELSE \E ok \in BOOLEAN :
               /\ frame_rows' = IF ok THEN frame_rows \cup NewRows("calendar_export", meeting_id, 1)
                                ELSE frame_rows
               /\ frame_run' = MovedReading(meeting_id, "finalize",
                                            SelectMeeting(frame_meetings, meeting_id))
    /\ UNCHANGED <<frame_meetings, frame_recordings, pipeline_vars, chunk_vars, merge_vars, sentiment_vars,
                   gateway_vars, lifecycle_vars, stream_vars>>

\* Step 10: the update to completed with ended_at; a raise is swallowed.
FrameFinalize(meeting_id) ==
    /\ frame_run[meeting_id].pc = "finalize"
    /\ \E ok \in BOOLEAN :
          frame_meetings' = IF ok
                            THEN UpdateMeeting(frame_meetings, meeting_id,
                                               [status |-> "completed",
                                                ended_at |-> "process_meeting"])
                            ELSE frame_meetings
    /\ frame_run' = Moved(meeting_id, "done")
    /\ UNCHANGED <<frame_recordings, frame_rows, pipeline_vars, chunk_vars, merge_vars, sentiment_vars,
                   gateway_vars, lifecycle_vars, stream_vars>>

\* The runs of the two meetings, their steps interleaved in any order.
SpecFrame ==
    InitFrame /\ [][\E meeting_id \in MeetingIds :
                       \/ FrameEndMeeting(meeting_id)
                       \/ FrameEnter(meeting_id)
                       \/ FrameTranscribe(meeting_id)
                       \/ FrameCallAndStore(meeting_id)
                       \/ FrameSummarise(meeting_id)
                       \/ FrameCalendar(meeting_id)
                       \/ FrameFinalize(meeting_id)]_vars

(* ======================= properties of the merge ======================== *)

\* The start-sorted, stable order of the positions of segs, stated without
\* the sort: p lists the positions so that starts never decrease and equal
\* starts keep their input order.
IsStableStartOrder(p, segs) ==
    \A j, k \in 1..Len(segs) :
        j < k => /\ segs[p[j]].start <= segs[p[k]].start
                 /\ segs[p[j]].start = segs[p[k]].start => p[j] < p[k]

\* lines renders segs, one line per segment, in start order with ties in
\* input order.
IsChronologicalRendering(lines, segs) ==
    /\ Len(lines) = Len(segs)
    /\ \E p \in Permutations(1..Len(segs)) :
          /\ IsStableStartOrder(p, segs)
          /\ \A k \in 1..Len(segs) : lines[k] = FormatLine(segs[p[k]])

\* names is strictly increasing in str order and lists exactly S.
IsSortedSetOf(names, S) ==
    /\ Range(names) = S
    /\ \A j, k \in 1..Len(names) : j < k => NameRank(names[j]) < NameRank(names[k])

\* C6: for any segment list the merged lines are in non-decreasing order of
\* start, segments with equal start keep their input order, there is one
\* line per input segment, the text is the lines joined by newlines, and the
\* speaker list is the sorted duplicate-free set of the segments' speakers.
C6_MergeOrdering ==
    merge_pc = "returned" =>
        /\ IsChronologicalRendering(merge_lines, merge_segments)
        /\ merge_result[1] = JoinStr(merge_lines, "\n")
        /\ IsSortedSetOf(merge_result[2],
                         {merge_segments[k].speaker : k \in 1..Len(merge_segments)})

\* A merge that had to reorder and that met two different segments with the
\* same start.
C6_Witness ==
    /\ merge_pc = "returned"
    /\ Len(merge_segments) = 3
    /\ merge_segments[1].start > merge_segments[2].start
    /\ merge_segments[2].start = merge_segments[3].start
    /\ merge_segments[2] # merge_segments[3]
    /\ merge_result[2] = <<"A", "B">>

Digit == <<"0", "1", "2", "3", "4", "5", "6", "7", "8", "9">>

\* n in at least two decimal digits.
TwoDigits(n) ==
    IF n < 100 THEN Digit[(n \div 10) + 1] \o Digit[(n % 10) + 1] ELSE ToString(n)

\* line is "[MM:SS] Speaker: text" for seg, MM and SS being the whole
\* minutes and the whole seconds of the rest of seg.start.
IsTimestampedLine(line, seg) ==
    \E mm \in 0..MaxMinutes, ss \in 0..59 :
        /\ (60 * mm + ss) * TicksPerSecond <= seg.start
        /\ seg.start < (60 * mm + ss + 1) * TicksPerSecond
        /\ line = "[" \o TwoDigits(mm) \o ":" \o TwoDigits(ss) \o "] "
                      \o seg.speaker \o ": " \o JoinStr(seg.text, " ")

\* C7: merging the empty list returns ("", []); merging one segment returns
\* exactly one line "[MM:SS] Speaker: text" with MM = floor(start / 60) and
\* SS = floor(start mod 60), zero-padded to two digits; every well-formed
\* list is merged to a result with one line per segment.
C7_MergeTotalityFormat ==
    /\ merge_pc \in {"call", "returned"}
    /\ merge_pc = "returned" =>
          /\ Len(merge_lines) = Len(merge_segments)
          /\ merge_segments = <<>> => merge_result = <<"", <<>>>>
          /\ Len(merge_segments) = 1 =>
                /\ Len(merge_lines) = 1
                /\ merge_result[1] = merge_lines[1]
                /\ IsTimestampedLine(merge_lines[1], merge_segments[1])
                /\ merge_result[2] = <<merge_segments[1].speaker>>

\* One segment at 12 min 5.5 s, merged.
C7_Witness ==
    /\ merge_pc = "returned"
    /\ Len(merge_segments) = 1
    /\ merge_segments[1].start = 725 * TicksPerSecond + 1
    /\ merge_result[1] = "[12:05] A: ok go"

(* ====================== properties of the chunker ======================= *)

\* The flattened, start-sorted word sequence of the argument.
InputWords == FlattenWords(SortedByStart(chunk_segments))

\* The word positions (from 1) of the window (i, end_idx).
WindowSet(w) == (w[1] + 1)..w[2]

\* The text of the words at the positions lo+1..hi of words.
WordsText(words, lo, hi) ==
    JoinStr([k \in 1..(hi - lo) |-> words[lo + k].word], " ")

\* C8: with 0 <= overlap < chunk_size every word of the flattened,
\* start-sorted word sequence is in at least one chunk, and the union of the
\* chunks' word ranges is the whole sequence, so that its size is the total
\* word count; each chunk's text is the words of its range.
C8_ChunkCoverage ==
    overlap < chunk_size =>
        /\ chunk_pc # "raised"
        /\ chunk_pc = "returned" =>
              /\ Len(chunks) = Len(windows)
              /\ UNION {WindowSet(windows[k]) : k \in 1..Len(windows)} = 1..Len(InputWords)
              /\ Cardinality(UNION {WindowSet(windows[k]) : k \in 1..Len(windows)})
                    = Len(InputWords)
              /\ \A k \in 1..Len(chunks) :
                     chunks[k].text = WordsText(InputWords, windows[k][1], windows[k][2])

\* A finished call that produced at least three overlapping chunks.
C8_Witness ==
    /\ chunk_pc = "returned"
    /\ 0 < overlap
    /\ overlap < chunk_size
    /\ Len(chunks) >= 3
    /\ Len(InputWords) > chunk_size

\* C9: a chunk whose words come from one speaker is labelled with that
\* name; a chunk with several speakers is labelled with their names, sorted
\* and duplicate-free, joined by ", ".
C9_ChunkSpeakerLabel ==
    overlap < chunk_size =>
        \A k \in 1..Len(chunks) :
            LET S == {words_with_meta[j].speaker : j \in WindowSet(windows[k])}
            IN chunks[k].speaker =
                  IF Cardinality(S) = 1 THEN CHOOSE n \in S : TRUE
                  ELSE JoinStr(SortedNames(S), ", ")

\* C10: with overlap < chunk_size an input without words gives no chunk,
\* and an input of at least one and fewer than chunk_size words gives
\* exactly one chunk holding every word.
C10_ChunkCountEdgeCases ==
    (chunk_pc = "returned" /\ overlap < chunk_size) =>
        /\ Len(InputWords) = 0 => chunks = <<>>
        /\ (1 <= Len(InputWords) /\ Len(InputWords) < chunk_size) =>
              /\ Len(chunks) = 1
              /\ chunks[1].text = WordsText(InputWords, 0, Len(InputWords))

\* C11: chunk_transcript terminates for every input with words and every
\* pair of parameters: the loop never comes back to the head with an index
\* it has already been at (the body is a function of the index, so a second
\* visit of an index is a loop without end), and it never takes more
\* iterations than there are words.
C11_ChunkTerminates ==
    /\ chunk_pc = "loop" => \A k \in 1..Len(windows) : windows[k][1] # chunk_i
    /\ Len(windows) <= Len(words_with_meta)

(* ================= properties of the sentiment labels =================== *)

RECURSIVE SumOver(_, _)
\* The sum of f[x] for x in S.
SumOver(f, S) ==
    IF S = {} THEN 0
    ELSE LET x == CHOOSE y \in S : TRUE IN f[x] + SumOver(f, S \ {x})

RECURSIVE ProductOver(_, _)
\* The product of f[x] for x in S.
ProductOver(f, S) ==
    IF S = {} THEN 1
    ELSE LET x == CHOOSE y \in S : TRUE IN f[x] * ProductOver(f, S \ {x})

\* label is the one label of the score num / den thousandths (den > 0):
\* positive iff the score is at least 1/20, negative iff it is at most
\* -1/20, neutral iff it is strictly between.
IsLabelOf(label, num, den) ==
    /\ label \in {"positive", "negative", "neutral"}
    /\ label = "positive" <=> 20 * num >= 1000 * den
    /\ label = "negative" <=> 20 * num <= -1000 * den
    /\ label = "neutral" <=> (-1000 * den < 20 * num /\ 20 * num < 1000 * den)

\* The stored rows of one speaker, by position.
RowsOfSpeaker(name) ==
    {k \in 1..Len(sentiment_rows) : sentiment_rows[k].speaker_name = name}

StoredScore == [k \in 1..Len(sentiment_rows) |-> sentiment_rows[k].sentiment_score]

StoredSpeakers == {sentiment_rows[k].speaker_name : k \in 1..Len(sentiment_rows)}

C14_MalformedOutputNeverRaises ==
    /\ gateway_pc = "raised" => gateway_result.error = "HTTPError"
    /\ (gateway_pc = "returned" /\ ~gateway_response.decodes) =>
          /\ gateway_method = "summarize_transcript" =>
                /\ gateway_result.value.executive_summary = JsonString(gateway_response.text)
                /\ gateway_result.value.key_points = JsonArray(<<>>)
                /\ gateway_result.value.decisions_made = JsonArray(<<>>)
                /\ gateway_result.value.follow_ups = JsonArray(<<>>)
          /\ gateway_method = "analyze_sentiment" =>
                gateway_result.value.overall_sentiment = JsonString("unknown")

\* C15 as stated: the result of extract_tasks is always a list: a top-level
\* array as it is, the array under tasks for an object with a tasks array,
\* any other decoded value wrapped as the only element, and the empty list
\* for a text that does not decode.
C15_ExtractTasksNormalisation ==
    (gateway_method = "extract_tasks" /\ gateway_pc = "returned") =>
        LET parsed == gateway_response.value
        IN gateway_result.value =
              IF ~gateway_response.decodes THEN <<>>
              ELSE IF IsList(parsed) THEN parsed.items
              ELSE IF IsDict(parsed) /\ "tasks" \in DOMAIN parsed /\ IsList(parsed.tasks)
                   THEN parsed.tasks.items
              ELSE <<parsed>>

\* C15 amended: extract_tasks returns whenever generate does, and its
\* result is a list: a top-level array as it is; for an object with a key
\* tasks the value of that key, as it is when it is an array and wrapped
\* as the only element otherwise; any other decoded value wrapped as the
\* only element; the empty list for a text that does not decode.
C15_ExtractTasksUnwrapsTasksKey ==
    gateway_method = "extract_tasks" =>
        /\ gateway_pc = "raised" => gateway_result.error = "HTTPError"
        /\ gateway_pc = "returned" =>
              LET parsed == gateway_response.value
              IN gateway_result.value =
                    IF ~gateway_response.decodes THEN <<>>
                    ELSE IF IsList(parsed) THEN parsed.items
                    ELSE IF IsDict(parsed) /\ "tasks" \in DOMAIN parsed
                         THEN (IF IsList(parsed.tasks) THEN parsed.tasks.items
                               ELSE <<parsed.tasks>>)
                    ELSE <<parsed>>

\* extract_tasks answered an object whose key tasks holds a string with
\* the list of that string.
C15_Witness ==
    /\ gateway_method = "extract_tasks"
    /\ gateway_pc = "returned"
    /\ gateway_response = Decodable([tasks |-> JsonString("none")])
    /\ gateway_result.value = <<JsonString("none")>>

(* ===================== properties of process_meeting ==================== *)

\* The stages of process_meeting that run inside their own try block, in
\* program order, before the update to completed.
Stages == <<"transcribe", "merge", "embed", "summarise", "tasks", "sentiment", "calendar">>

\* stage was entered: process_meeting logged its end or its failure.
Attempted(stage) == \E k \in 1..Len(log) : log[k][1] = stage

Failed(stage) == <<stage, "error">> \in Range(log)

Succeeded(stage) == <<stage, "ok">> \in Range(log)

\* How many of Stages lie behind the position of the run.
PcPosition ==
    CASE pc \in {"idle", "entry", "raised", "transcribe", "track"} -> 0
      [] pc = "merge" -> 1
      [] pc \in {"embed", "chunking"} -> 2
      [] pc = "summarise" -> 3
      [] pc = "tasks" -> 4
      [] pc = "sentiment" -> 5
      [] pc = "calendar" -> 6
      [] pc \in {"finalize", "cleanup", "done"} -> 7

RECURSIVE CompletedRows(_)
\* The TranscriptionSegment rows of the tracks 1..n that are completed.
CompletedRows(n) ==
    IF n = 0 THEN <<>>
    ELSE CompletedRows(n - 1) \o
         (IF recordings[n].transcription_status = "completed"
          THEN TrackRows(recordings[n].speaker_name, transcripts[n]) ELSE <<>>)

RECURSIVE CompletedDicts(_)
\* The segment dicts of the tracks 1..n that are completed.
CompletedDicts(n) ==
    IF n = 0 THEN <<>>
    ELSE CompletedDicts(n - 1) \o
         (IF recordings[n].transcription_status = "completed"
          THEN TrackDicts(recordings[n].speaker_name, transcripts[n]) ELSE <<>>)

\* Every stage that ended without an exception and had something to store
\* has its rows in the store.
SucceededStagesPersisted ==
    /\ Succeeded("transcribe") => segment_rows = CompletedRows(Len(recordings))
    /\ (Succeeded("embed") /\ all_segments # <<>>) =>
          /\ embedding_rows # <<>>
          /\ Len(embedding_rows) = Len(chunks)
    /\ (Succeeded("summarise") /\ merged_transcript # "") =>
          {"executive", "key_points", "decisions"} \subseteq Range(summary_rows)
    /\ (Succeeded("tasks") /\ merged_transcript # "") =>
          /\ Len(task_rows) = Len(tasks_data)
          /\ \A k \in 1..Len(task_rows) : task_rows[k].title = tasks_data[k].title
    /\ (Succeeded("sentiment") /\ merged_transcript # "") =>
          "sentiment" \in Range(summary_rows)
    /\ (Succeeded("calendar") /\ \E k \in 1..Len(tasks_data) : tasks_data[k].due_date # "null") =>
          Len(calendar_rows) = 1

\* C1: when stage n raises, the exception stays inside process_meeting,
\* every later stage is still attempted, the stages that succeed have their
\* records in the store, and the run ends with the meeting completed.  The
\* faults are those of the stages: a run whose final update itself fails
\* (C5) leaves the status at processing.
C1_StageIsolation ==
    \A n \in 1..Len(Stages) :
        Failed(Stages[n]) =>
            /\ pc # "raised"
            /\ PcPosition >= n
            /\ \A m \in (n + 1)..PcPosition : Attempted(Stages[m])
            /\ pc = "done" =>
                  /\ \A m \in 1..Len(Stages) : Attempted(Stages[m])
                  /\ SucceededStagesPersisted
                  /\ ~Failed("finalize") => status = "completed"

\* A finished run in which summarise alone failed: the tasks and the
\* sentiment summary are stored and the meeting is completed.
C1_Witness ==
    /\ pc = "done"
    /\ Failed("summarise")
    /\ \A n \in 1..Len(Stages) : Stages[n] # "summarise" => Succeeded(Stages[n])
    /\ "executive" \notin Range(summary_rows)
    /\ "sentiment" \in Range(summary_rows)
    /\ Len(task_rows) = 2
    /\ status = "completed"

\* C2: in every run exactly one update to completed is attempted, and only
\* after each of the seven stages has been attempted.
C2_OneFinalUpdate ==
    /\ pc \in {"done", "raised"} =>
          Cardinality({k \in 1..Len(log) : log[k][1] = "finalize"}) = 1
    /\ \A k \in 1..Len(log) :
          log[k][1] = "finalize" =>
              \A n \in 1..Len(Stages) : \E j \in 1..(k - 1) : log[j][1] = Stages[n]

\* The tracks that raised in their own handler and so ended stage 1.
EndedStage(t) ==
    track_fault[t] \in {"commit_processing+handler", "transcribe_file+handler",
                         "commit_completed+handler"}

C4_NoExceptionLeaves == pc # "raised"

\* C5: when the final update cannot be performed the failure is swallowed,
\* the status stays processing (the run writes neither failed nor
\* completed), and the cleanup is still attempted.
C5_FinalUpdateFailure ==
    /\ status # "failed"
    /\ Failed("finalize") =>
          /\ status = "processing"
          /\ pc \in {"cleanup", "done"}
          /\ pc = "done" => Attempted("cleanup")

\* A run that ended after its final update had failed.
C5_Witness ==
    /\ pc = "done"
    /\ Failed("finalize")
    /\ Attempted("cleanup")
    /\ status = "processing"

(* ================= properties of the extract-tasks stage ================ *)

DatedExtracted == \E k \in 1..Len(tasks_data) : tasks_data[k].due_date # "null"

C17_EmptyInputSkips ==
    (Attempted("merge") /\ all_segments = <<>>) =>
        /\ merged_transcript = ""
        /\ calls["generate_embedding"] = 0
        /\ calls["summarize_transcript"] = 0
        /\ calls["extract_tasks"] = 0
        /\ calls["analyze_sentiment"] = 0
        /\ embedding_rows = <<>>
        /\ summary_rows = <<>>
        /\ task_rows = <<>>
        /\ \A stage \in {"embed", "summarise", "tasks", "sentiment"} : ~Failed(stage)
        /\ PcPosition >= 6 =>
              \A stage \in {"embed", "summarise", "tasks", "sentiment"} : Succeeded(stage)
        /\ (pc = "done" /\ ~Failed("finalize")) => status = "completed"

\* A run over a track whose transcription failed and a track that returned
\* only empty text: every later stage was skipped and no call was made.
C17_Witness ==
    /\ pc = "done"
    /\ status = "completed"
    /\ recordings # <<>>
    /\ all_segments = <<>>
    /\ \E t \in 1..Len(recordings) : track_fault[t] = "transcribe_file"
    /\ \E t \in 1..Len(recordings) :
          /\ track_fault[t] = "none"
          /\ transcripts[t] # <<>>
          /\ recordings[t].transcription_status = "completed"
    /\ \A stage \in {"embed", "summarise", "tasks", "sentiment"} : Succeeded(stage)
    /\ calls["summarize_transcript"] = 0

(* ================= properties of the meeting lifecycle ================== *)

\* C18: whatever start-meeting requests, end-meeting requests and runs
\* interleave, Meeting.status changes only along waiting -> active ->
\* processing -> completed | failed: never backwards, never past a state.
C18_StatusLifecycle ==
    [][status' # status =>
          <<status, status'>> \in {<<"waiting", "active">>,
                                   <<"active", "processing">>,
                                   <<"processing", "completed">>,
                                   <<"processing", "failed">>}]_vars

\* C19: at most one run of process_meeting for the meeting is queued or
\* under way at any time.
C19_OneRunAtATime ==
    Cardinality({r \in 1..Len(run_pc) : run_pc[r] \in {"queued", "stages"}}) <= 1

(* ============== properties of the track transcription status ============ *)

\* s is an initial part of t.
IsPrefix(s, t) == Len(s) <= Len(t) /\ \A k \in 1..Len(s) : s[k] = t[k]

\* C20: the stored transcription_status of every recording moves along
\* pending -> processing -> completed | failed, and once stage 1 has
\* finished every recording of the meeting is completed or failed.
C20_TrackStatus ==
    /\ \A t \in 1..Len(recordings) :
          \/ IsPrefix(status_trace[t], <<"pending", "processing", "completed">>)
          \/ IsPrefix(status_trace[t], <<"pending", "processing", "failed">>)
    /\ Attempted("transcribe") =>
          \A t \in 1..Len(recordings) :
             recordings[t].transcription_status \in {"completed", "failed"}

(* ====================== properties of chat_stream ====================== *)

\* The line reads as a message object with content that is not empty.
CarriesContent(line) ==
    /\ line.decodes
    /\ IsDict(line.value)
    /\ "message" \in DOMAIN line.value
    /\ IsDict(line.value.message)
    /\ "content" \in DOMAIN line.value.message
    /\ line.value.message.content \notin {JsonString(""), JsonNull}

RECURSIVE Deltas(_)
\* The content of the lines that carry one, in arrival order.
Deltas(lines) ==
    IF lines = <<>> THEN <<>>
    ELSE (IF CarriesContent(lines[1]) THEN <<lines[1].value.message.content>> ELSE <<>>)
             \o Deltas(Tail(lines))

\* C22: chat_stream yields, in arrival order, the content of each line
\* taken so far that parses and carries content; no line, empty or
\* malformed, ends the stream or raises to the consumer (only the request
\* itself can fail).
C22_StreamSkipsMalformed ==
    /\ stream_pc = "raised" => stream_error = "HTTPError"
    /\ stream_yielded = Deltas(SubSeq(stream_lines, 1, stream_i))
    /\ stream_pc = "ended" => stream_i = Len(stream_lines)

(* ===================== properties of the chunk windows ================== *)

\* The word index (from 0) at which the k-th chunk (from 0) starts.
WindowStart(k) == k * (chunk_size - overlap)

\* C26: for overlap < chunk_size the k-th chunk (from 0) holds the words
\* from index k * (chunk_size - overlap) on, at most chunk_size of them and
\* consecutive; its start is the segment start of its first word and its
\* end the segment start of its last word, so start <= end; when the call
\* has returned there is exactly one chunk for each window start below the
\* length of the word sequence.
C26_ChunkWindows ==
    (overlap < chunk_size /\ chunk_pc \in {"loop", "returned"}) =>
        LET total == Len(InputWords)
        IN /\ \A k \in 0..(Len(chunks) - 1) :
                 LET lo == WindowStart(k)
                     hi == IF lo + chunk_size < total THEN lo + chunk_size ELSE total
                 IN /\ lo < total
                    /\ chunks[k + 1].text = WordsText(InputWords, lo, hi)
                    /\ chunks[k + 1].start = InputWords[lo + 1].start
                    /\ chunks[k + 1].end = InputWords[hi].start
                    /\ chunks[k + 1].start <= chunks[k + 1].end
           /\ chunk_pc = "returned" =>
                 Len(chunks) = Cardinality({k \in 0..total : WindowStart(k) < total})

\* A call that returned three overlapping chunks, one of them from a word
\* of a segment at 0 to a word of a segment at 2 s.
C26_Witness ==
    /\ chunk_pc = "returned"
    /\ 0 < overlap
    /\ overlap < chunk_size
    /\ Len(chunks) = 3
    /\ \E k \in 1..Len(chunks) :
          /\ chunks[k].start = 0
          /\ chunks[k].end = 2 * TicksPerSecond

(* ============ properties of the export and the stored tasks ============= *)

\* C29: whenever a run has stored a CalendarExport row, its extract-tasks
\* stage has committed its Task rows and one of those rows has a due date
\* that is not null: an extracted due date that cannot be parsed, stored as
\* null, does not by itself cause an export.
C29_ExportAgreesWithTasks ==
    calendar_rows # <<>> =>
        /\ Succeeded("tasks")
        /\ task_rows # <<>>
        /\ \E k \in 1..Len(task_rows) : task_rows[k].due_date # "null"

(* ================= properties of what stage 1 hands on ================== *)

\* transcribe_file returned the segments of track t in this run.
Transcribed(t) ==
    track_fault[t] \in {"none", "commit_completed", "commit_completed+handler"}

RECURSIVE CreatedRows(_)
\* The TranscriptionSegment rows this run added to its session for the
\* tracks 1..n.
CreatedRows(n) ==
    IF n = 0 THEN <<>>
    ELSE CreatedRows(n - 1) \o
         (IF Transcribed(n)
          THEN TrackRows(recordings[n].speaker_name, transcripts[n]) ELSE <<>>)

\* Stage 1 is over: process_meeting holds the list it hands to the later
\* stages.
StageOneOver == PcPosition >= 1

\* C23: at the end of every stage either all the records the stage created
\* in this run are committed or none is, also when the stage failed part
\* of the way; what an earlier stage committed stays in the store.
C23_StageAtomicity ==
    /\ StageOneOver =>
          \/ segment_rows = <<>>
          \/ segment_rows = CreatedRows(Len(recordings))
    /\ PcPosition >= 3 =>
          \/ embedding_rows = <<>>
          \/ embedding_rows = EmbeddingRows(chunks) /\ Succeeded("embed")
    /\ LET types == {"executive", "key_points", "decisions"} \cap Range(summary_rows)
       IN \/ types = {}
          \/ types = {"executive", "key_points", "decisions"} /\ Succeeded("summarise")
    /\ \/ task_rows = <<>>
       \/ Succeeded("tasks") /\ Len(task_rows) = Len(tasks_data)
    /\ "sentiment" \in Range(summary_rows) => Succeeded("sentiment")
    /\ \/ calendar_rows = <<>>
       \/ Succeeded("calendar") /\ Len(calendar_rows) = 1

\* C27: the list handed to merge and to the later stages holds the segments
\* of every track transcribed in this run, whatever happened to the other
\* tracks and also when stage 1 as a whole ended with an exception.
C27_PartialDataReachesLaterStages ==
    StageOneOver =>
        \A t \in 1..Len(recordings) :
           track_fault[t] = "none" =>
              \A k \in 1..Len(TrackDicts(recordings[t].speaker_name, transcripts[t])) :
                 TrackDicts(recordings[t].speaker_name, transcripts[t])[k]
                    \in Range(all_segments)

\* The segment dict and the row say the same.
SameSegment(dict, row) ==
    /\ dict.speaker = row.speaker_name
    /\ dict.text = row.text
    /\ dict.start = row.start_time
    /\ dict.end = row.end_time

CalledTranscribe(t) ==
    track_fault[t] \notin {"not_run", "no_file", "commit_processing",
                           "commit_processing+handler"}

\* C25: a run calls transcribe_file at most once per track, the embedding
\* service at most once per chunk, and summarize, extract-tasks and
\* analyze-sentiment at most once each; a call that failed is not issued
\* again.
C25_NoRetries ==
    /\ calls["transcribe_file"] =
          Cardinality({t \in 1..Len(recordings) : CalledTranscribe(t)})
    /\ calls["generate_embedding"] <= Len(chunks)
    /\ \A service \in {"summarize_transcript", "extract_tasks", "analyze_sentiment"} :
          calls[service] <= 1
    /\ \A stage \in {"embed", "summarise", "tasks", "sentiment"} :
          Cardinality({k \in 1..Len(log) : log[k][1] = stage}) <= 1

\* A run in which the transcription of one of two tracks failed and the
\* sentiment call failed: each was issued once.
C25_Witness ==
    /\ pc = "done"
    /\ Len(recordings) = 2
    /\ \E t \in 1..2 : track_fault[t] = "transcribe_file"
    /\ calls["transcribe_file"] = 2
    /\ Failed("sentiment")
    /\ calls["analyze_sentiment"] = 1
    /\ Failed("embed")
    /\ calls["generate_embedding"] = 1

(* ================= properties of the session transaction =============== *)

\* C24: no call of transcribe_file, of the embedding service or of the LLM
\* was made while the session of the run had a transaction open, and no
\* transaction is held from one stage to the next: every stage commits or
\* closes before it calls, or calls before it opens its session.
C24_NoCallInsideTransaction ==
    /\ calls_in_txn = 0
    /\ pc \notin {"track"} => txn = "none"

\* A run that skipped a track without file (the transaction of the select
\* still open), transcribed the next one, and called every service.
C24_Witness ==
    /\ pc = "done"
    /\ Len(recordings) = 2
    /\ track_fault = <<"no_file", "none">>
    /\ \A service \in {"transcribe_file", "generate_embedding", "summarize_transcript",
                         "extract_tasks", "analyze_sentiment"} : calls[service] >= 1
    /\ calls_in_txn = 0

(* ================== properties of the Summary rows ===================== *)

SummaryTypes == {"executive", "key_points", "decisions", "sentiment"}

\* How many of the Summary rows have the type.
CountOf(type) == Cardinality({k \in 1..Len(summary_rows) : summary_rows[k] = type})

\* The Summary rows a step has added.
AddedSummaries == SubSeq(summary_rows', Len(summary_rows) + 1, Len(summary_rows'))

\* C21 as stated: after k runs that succeeded there are exactly k Summary
\* rows of each of the four types.
C21_SummaryRowsPerRun ==
    RunSucceeded => \A type \in SummaryTypes : CountOf(type) = triggered

\* C21, amended: no step changes or removes a Summary row; a summarise
\* stage that is not skipped and succeeds adds exactly the three rows
\* executive, key_points, decisions after one call of summarize_transcript,
\* a deep-sentiment stage that is not skipped and succeeds adds exactly one
\* row sentiment after one call of analyze_sentiment, and no other step
\* adds a Summary row; so after k runs that succeeded and in which both
\* stages made their call there are k rows of each of the four types.
C21_SummaryRowsPerCall ==
    /\ [](RunSucceeded /\ calls["summarize_transcript"] = triggered
                       /\ calls["analyze_sentiment"] = triggered
             => \A type \in SummaryTypes : CountOf(type) = triggered)
    /\ [][/\ IsPrefix(summary_rows, summary_rows')
          /\ AddedSummaries =
                IF pc = "summarise" /\ merged_transcript # ""
                   /\ log' = Append(log, <<"summarise", "ok">>)
                THEN <<"executive", "key_points", "decisions">>
                ELSE IF pc = "sentiment" /\ merged_transcript # ""
                        /\ log' = Append(log, <<"sentiment", "ok">>)
                     THEN <<"sentiment">>
                     ELSE <<>>
          /\ AddedSummaries # <<>> =>
                \E service \in {"summarize_transcript", "analyze_sentiment"} :
                   calls' = Called(service, 1)]_vars

\* The second run on one meeting has succeeded as the first did, and
\* each has stored its four Summary rows.
C21_Witness ==
    /\ RunSucceeded
    /\ triggered = 2
    /\ calls["summarize_transcript"] = 2
    /\ summary_rows = <<"executive", "key_points", "decisions", "sentiment",
                        "executive", "key_points", "decisions", "sentiment">>

(* ===================== properties of the frame of a run ================ *)

\* A step has changed nothing but the status and ended_at of one meeting
\* and the transcription_status of its recordings, and has added rows
\* owned by that meeting only.
OnlyTouches(meeting_id) ==
    /\ DOMAIN frame_meetings' = DOMAIN frame_meetings
    /\ \A id \in MeetingIds \ {meeting_id} : frame_meetings'[id] = frame_meetings[id]
    /\ frame_meetings'[meeting_id].title = frame_meetings[meeting_id].title
    /\ Cardinality(frame_recordings') = Cardinality(frame_recordings)
    /\ \A rec \in frame_recordings :
          \E after \in frame_recordings' :
             /\ after.id = rec.id
             /\ after.meeting_id = rec.meeting_id
             /\ after.file_path = rec.file_path
             /\ rec.meeting_id # meeting_id => after = rec
    /\ frame_rows \subseteq frame_rows'
    /\ \A row \in frame_rows' \ frame_rows : row.meeting_id = meeting_id
    /\ \A id \in MeetingIds \ {meeting_id} : frame_run'[id] = frame_run[id]

====
